---- MODULE Spec2Model ----
(***************************************************************************)
(* Laundry pickup requests: the customer submission workflow               *)
(* (CustomerRequest.onSubmit), the service selector and its pricing, the   *)
(* validation rule set, and the store they write to.                       *)
(*                                                                         *)
(* Money is kept in whole cents.  A nullable value is Null (<<>>) or       *)
(* Some(x) (<<x>>).  A text value is a sequence of one-character strings.  *)
(* A JavaScript number that may be NaN or undefined is a tagged record.    *)
(***************************************************************************)
EXTENDS Integers, Sequences, FiniteSets, TLC

VARIABLES
    laundry_services,   \* store table: the catalog rows
    laundry_requests,   \* store table: the order rows
    request_services,   \* store table: the order line rows
    services,           \* CustomerRequest state: Null until loaded, then Some(list)
    selServices,        \* ServiceSelector state: Null until loaded, then Some(list)
    formData,           \* the form's field values (react-hook-form)
    quantities,         \* the form's 'quantities' value: service id -> JS number
    errors,             \* formState.errors: the fields react-hook-form rejected
    submitLoading,
    submitError,
    submitSuccess,
    toast,              \* the last toast shown: Null or Some([msg, type])
    pc,                 \* where onSubmit is suspended: "idle", "creating", "lines"
    created,            \* onSubmit's `created`: Null or Some(ApiResponse)
    selected,           \* onSubmit's `selected`
    lineWrites,         \* every addRequestService call issued so far
    inflight,           \* ids of the addRequestService calls not yet resolved
    onSubmitData,       \* onSubmit's `data`: Null or Some([form, quantities])
    payload,            \* onSubmit's `payload`: Null or Some(record)
    nextId,             \* the store's next generated id
    now,                \* the client's clock: [h |-> hours since epoch (UTC), tz |-> offset hours]
    priceView,          \* the amounts last computed from (catalog, quantities): Null or Some(record)
    adminServices,      \* ServiceManagementPage state: the set of catalog rows it lists
    detail,             \* what RequestDetails last rendered: Null or Some(record)
    requests,           \* RequestManagement state: the order rows it lists
    selectedRequests,   \* RequestManagement state: the ids ticked for a batch
    batch,              \* handleBatchStatusUpdate in progress: Null or Some(record)
    updateWrites,       \* every updateRequest call issued so far
    notifications,      \* every sendStatusUpdateNotification call made so far
    adminPc,            \* a single-order update in progress: Null or Some(record)
    pendingRequests,    \* AdminDashboardPage state: the pending rows it lists
    validation,         \* what lib/validation.ts last returned: Null or Some(record)
    csvContent,         \* the text exportToCSV last built: Null or Some(text)
    statusFilter,       \* RequestManagement state: 'all' or the status listed
    serviceOps,         \* ServiceManagementPage: the store writes not yet resolved
    adminAuth           \* AdminLayout: the environment, localStorage and each browser tab

vars == <<laundry_services, laundry_requests, request_services, services, selServices,
          formData, quantities, errors, submitLoading, submitError, submitSuccess,
          toast, pc, created, selected, lineWrites, inflight, onSubmitData, payload, nextId, now,
          priceView, adminServices, detail, requests, selectedRequests, batch,
          updateWrites, notifications, adminPc, pendingRequests, validation, csvContent,
          statusFilter, serviceOps, adminAuth>>

\* the results of library calls
libVars == <<validation, csvContent>>
\* the list filter, the catalog writes in flight and the login state
sessionVars == <<statusFilter, serviceOps, adminAuth>>
\* the state of the request pages of the back office
requestVars == <<requests, selectedRequests, batch, updateWrites, notifications, adminPc,
                 pendingRequests>>

\* the state of the back office pages
adminVars == <<adminServices, detail, requestVars, libVars, sessionVars>>

(***************************************************************************)
(* Bounds                                                                  *)
(***************************************************************************)
MaxQty == 2        \* largest quantity typed into the selector
MaxOrders == 1     \* order ids the store hands out in one behaviour
MaxBatches == 1    \* batch status updates started in one behaviour
MaxUpdates == 2    \* single-order updates started in one behaviour
MaxTabs == 2       \* browser tabs that can have the admin route open

(***************************************************************************)
(* JavaScript values                                                       *)
(***************************************************************************)
Null == <<>>
Some(x) == <<x>>

JNum(n) == [t |-> "num", v |-> n]
JNaN == [t |-> "nan", v |-> 0]
JUndef == [t |-> "undef", v |-> 0]

\* x || y on numbers: 0, NaN and undefined are falsy
JOr(x, y) == IF x.t = "num" /\ x.v # 0 THEN x ELSE y

\* Number(x): undefined becomes NaN
JNumber(x) == IF x.t = "undef" THEN JNaN ELSE x

\* Math.max(0, x): NaN is contagious
JMax0(x) == IF x.t # "num" THEN JNaN ELSE IF x.v < 0 THEN JNum(0) ELSE x

\* Math.floor on the integers of the model
JFloor(x) == IF x.t # "num" THEN JNaN ELSE x

\* x * y with y a plain number of cents
JMul(x, y) == IF x.t # "num" THEN JNaN ELSE JNum(x.v * y)

\* x > 0: false for NaN
JGt0(x) == x.t = "num" /\ x.v > 0

\* Number.prototype.toFixed(2) of an amount of cents: the text "d.cc", or "NaN"
ToFixed2(x) ==
    IF x.t = "num" THEN [nan |-> FALSE, whole |-> x.v \div 100, frac |-> x.v % 100]
    ELSE [nan |-> TRUE, whole |-> 0, frac |-> 0]

\* Number("d.cc"): the amount of cents the text denotes
ParseMoney(txt) == IF txt.nan THEN JNaN ELSE JNum(txt.whole * 100 + txt.frac)

(***************************************************************************)
(* The catalog                                                             *)
(***************************************************************************)
ServiceIds == {"svc1", "svc2"}

\* A laundry_services row.  name is the rank of the name in collation order.
Service(id, name, item, pound, active) ==
    [id |-> id, name |-> name, price_per_item |-> item, price_per_pound |-> pound,
     is_active |-> active]

\* The catalog the store holds when the page is opened: one service priced both
\* per item and per pound, one priced per pound only.
InitialCatalog ==
    { Service("svc1", 2, Some(250), Some(300), TRUE),
      Service("svc2", 1, Null, Some(150), TRUE) }

\* The rows of a set ordered by name, ascending
RECURSIVE SortByName(_)
SortByName(S) ==
    IF S = {} THEN <<>>
    ELSE LET m == CHOOSE x \in S : \A y \in S : x.name <= y.name
         IN <<m>> \o SortByName(S \ {m})

\* listActiveServices(): the rows the query returns when it succeeds
listActiveServices == SortByName({s \in laundry_services : s.is_active})

\* a ?? b
Coalesce(a, b) == IF a # Null THEN a ELSE b

\* Number(s.price_per_item ?? s.price_per_pound ?? '0'), in cents
UnitPriceWrong(s) == Coalesce(s.price_per_pound, Coalesce(s.price_per_item, Some(0)))[1]
UnitPrice(s) == Coalesce(s.price_per_item, Coalesce(s.price_per_pound, Some(0)))[1]

\* services ?? []
Items(svcs) == IF svcs = Null THEN <<>> ELSE svcs[1]

\* value?.[id]
QtyOf(value, id) == IF id \in DOMAIN value THEN value[id] ELSE JUndef

RECURSIVE SumNum(_)
SumNum(seq) ==
    IF seq = <<>> THEN JNum(0)
    ELSE LET h == seq[1]
             r == SumNum(Tail(seq))
         IN IF h.t # "num" \/ r.t # "num" THEN JNaN ELSE JNum(h.v + r.v)

\* lineTotals of ServiceSelector and of CustomerRequest (the same expression)
lineTotalsNoClamp(items, value) ==
    [i \in 1..Len(items) |->
        JMul(JNumber(JOr(QtyOf(value, items[i].id), JNum(0))), UnitPrice(items[i]))]
lineTotals(items, value) ==
    [i \in 1..Len(items) |->
        LET qty == JMax0(JNumber(JOr(QtyOf(value, items[i].id), JNum(0))))
            price == UnitPrice(items[i])
        IN JMul(qty, price)]

\* overallTotal / total: lineTotals.reduce((a, b) => a + b, 0)
total(items, value) == SumNum(lineTotals(items, value))

\* the order summary: one row per item with a quantity above 0
orderSummary(items, value) ==
    LET shown == SelectSeq(items, LAMBDA s : JGt0(JNumber(JOr(QtyOf(value, s.id), JNum(0)))))
    IN [i \in 1..Len(shown) |->
          [id |-> shown[i].id,
           lineTotal |-> JMul(JMax0(JNumber(JOr(QtyOf(value, shown[i].id), JNum(0)))),
                              UnitPrice(shown[i]))]]

(***************************************************************************)
(* Text                                                                    *)
(***************************************************************************)
Lower == {"a","b","c","d","e","f","g","h","i","j","k","l","m",
          "n","o","p","q","r","s","t","u","v","w","x","y","z"}
Upper == {"A","B","C","D","E","F","G","H","I","J","K","L","M",
          "N","O","P","Q","R","S","T","U","V","W","X","Y","Z"}
DigitChars == <<"0","1","2","3","4","5","6","7","8","9">>
Digits == {DigitChars[i] : i \in 1..Len(DigitChars)}
Whitespace == {" ", "\t", "\n", "\r"}

DigitVal(c) == (CHOOSE i \in 1..Len(DigitChars) : DigitChars[i] = c) - 1

\* a text of n copies of c
Rep(c, n) == [i \in 1..n |-> c]

AllIn(txt, S) == \A i \in 1..Len(txt) : txt[i] \in S

\* String.prototype.trim
RECURSIVE TrimLeft(_)
TrimLeft(txt) ==
    IF txt # <<>> /\ txt[1] \in Whitespace THEN TrimLeft(Tail(txt)) ELSE txt
RECURSIVE TrimRight(_)
TrimRight(txt) ==
    IF txt # <<>> /\ txt[Len(txt)] \in Whitespace
    THEN TrimRight(SubSeq(txt, 1, Len(txt) - 1)) ELSE txt
Trim(txt) == TrimRight(TrimLeft(txt))

\* the value of a text of decimal digits
RECURSIVE DigitsValue(_)
DigitsValue(txt) ==
    IF txt = <<>> THEN 0
    ELSE DigitsValue(SubSeq(txt, 1, Len(txt) - 1)) * 10 + DigitVal(txt[Len(txt)])

\* Number(text), for the texts of the model: "" is 0, a run of digits is its
\* value, anything else is NaN
NumberOfText(txt) ==
    IF AllIn(txt, Digits) THEN JNum(DigitsValue(txt)) ELSE JNaN

(***************************************************************************)
(* Dates.  An instant is a number of hours since the epoch (UTC); a day    *)
(* is a number of days since the epoch.                                    *)
(***************************************************************************)
\* floor division, also for a negative dividend
FloorDiv(a, b) == IF a >= 0 THEN a \div b ELSE -((-a + b - 1) \div b)

\* the day number of the civil date y-m-d (proleptic Gregorian)
DaysFromCivil(y, m, d) ==
    LET yy == IF m <= 2 THEN y - 1 ELSE y
        era == FloorDiv(yy, 400)
        yoe == yy - era * 400
        mp == IF m > 2 THEN m - 3 ELSE m + 9
        doy == (153 * mp + 2) \div 5 + d - 1
        doe == yoe * 365 + yoe \div 4 - yoe \div 100 + doy
    IN era * 146097 + doe - 719468

\* the civil date of a day number
CivilFromDays(z0) ==
    LET z == z0 + 719468
        era == FloorDiv(z, 146097)
        doe == z - era * 146097
        yoe == (doe - doe \div 1460 + doe \div 36524 - doe \div 146096) \div 365
        doy == doe - (365 * yoe + yoe \div 4 - yoe \div 100)
        mp == (5 * doy + 2) \div 153
        d == doy - (153 * mp + 2) \div 5 + 1
        m == IF mp < 10 THEN mp + 3 ELSE mp - 9
        y == yoe + era * 400 + (IF m <= 2 THEN 1 ELSE 0)
    IN [y |-> y, m |-> m, d |-> d]

\* n as a text of exactly w decimal digits
RECURSIVE PadDigits(_, _)
PadDigits(n, w) ==
    IF w = 0 THEN <<>> ELSE PadDigits(n \div 10, w - 1) \o <<DigitChars[(n % 10) + 1]>>

\* Date.prototype.toISOString().slice(0, 10) of an instant
ISODateText(instant) ==
    LET c == CivilFromDays(FloorDiv(instant, 24))
    IN PadDigits(c.y, 4) \o <<"-">> \o PadDigits(c.m, 2) \o <<"-">> \o PadDigits(c.d, 2)

\* new Date(text) for a date-only text: Some(instant of that day's UTC midnight),
\* or Null for an Invalid Date.  Only the form YYYY-MM-DD is recognised.
ParseDate(txt) ==
    IF /\ Len(txt) = 10
       /\ txt[5] = "-" /\ txt[8] = "-"
       /\ AllIn(SubSeq(txt, 1, 4) \o SubSeq(txt, 6, 7) \o SubSeq(txt, 9, 10), Digits)
    THEN LET y == DigitsValue(SubSeq(txt, 1, 4))
             m == DigitsValue(SubSeq(txt, 6, 7))
             d == DigitsValue(SubSeq(txt, 9, 10))
         IN IF m \in 1..12 /\ d \in 1..31
               /\ CivilFromDays(DaysFromCivil(y, m, d)) = [y |-> y, m |-> m, d |-> d]
            THEN Some(DaysFromCivil(y, m, d) * 24)
            ELSE Null
    ELSE Null

\* the client's local day number at a clock reading
LocalDay(clock) == FloorDiv(clock.h + clock.tz, 24)

\* const today = new Date(); today.setHours(0, 0, 0, 0): local midnight, as an instant
TodayMidnight(clock) == LocalDay(clock) * 24 - clock.tz

\* d.setFullYear(d.getFullYear() + 1): the same local date and time a year on
\* (February 29 rolls over to March 1)
OneYearFromNow(clock) ==
    LET c == CivilFromDays(LocalDay(clock))
        hourOfDay == (clock.h + clock.tz) - LocalDay(clock) * 24
        rolls == c.m = 2 /\ c.d = 29
        day == IF rolls THEN DaysFromCivil(c.y + 1, 3, 1) ELSE DaysFromCivil(c.y + 1, c.m, c.d)
    IN day * 24 + hourOfDay - clock.tz

(***************************************************************************)
(* lib/validation.ts                                                       *)
(***************************************************************************)
\* VALIDATION_PATTERNS.name: /^[a-zA-Z\s\-'\.]+$/
MatchesName(txt) ==
    txt # <<>> /\ AllIn(txt, Lower \cup Upper \cup Whitespace \cup {"-", "'", "."})

\* VALIDATION_PATTERNS.address: /^[a-zA-Z0-9\s\-\.,#\/]+$/
MatchesAddress(txt) ==
    txt # <<>> /\ AllIn(txt, Lower \cup Upper \cup Digits \cup Whitespace
                             \cup {"-", ".", ",", "#", "/"})

\* VALIDATION_PATTERNS.email: /^[^\s@]+@[^\s@]+\.[^\s@]+$/
MatchesEmail(txt) ==
    /\ \A i \in 1..Len(txt) : txt[i] \notin Whitespace
    /\ \E a \in 2..Len(txt) :
         /\ txt[a] = "@"
         /\ \A i \in 1..Len(txt) : txt[i] = "@" => i = a
         /\ \E dot \in (a + 2)..(Len(txt) - 1) : txt[dot] = "."

\* VALIDATION_PATTERNS.phoneUS:
\* /^\(?([0-9]{3})\)?[-. ]?([0-9]{3})[-. ]?([0-9]{4})$/
MatchesPhoneUS(txt) ==
    \E open, close, sep1, sep2 \in {0, 1} :
        LET p1 == open + 1            \* first digit of the area code
            p2 == p1 + 3 + close + sep1   \* first digit of the exchange
            p3 == p2 + 3 + sep2           \* first digit of the line number
        IN /\ Len(txt) = p3 + 3
           /\ open = 1 => txt[1] = "("
           /\ close = 1 => txt[p1 + 3] = ")"
           /\ sep1 = 1 => txt[p1 + 3 + close] \in {"-", ".", " "}
           /\ sep2 = 1 => txt[p2 + 3] \in {"-", ".", " "}
           /\ AllIn(SubSeq(txt, p1, p1 + 2), Digits)
           /\ AllIn(SubSeq(txt, p2, p2 + 2), Digits)
           /\ AllIn(SubSeq(txt, p3, p3 + 3), Digits)

PatternTest(pattern, txt) ==
    CASE pattern = "name" -> MatchesName(txt)
      [] pattern = "address" -> MatchesAddress(txt)
      [] pattern = "email" -> MatchesEmail(txt)
      [] pattern = "phoneUS" -> MatchesPhoneUS(txt)

\* VALIDATION_MESSAGES
MsgRequired == "This field is required"
MsgPattern == "Please enter a valid format"
\* the messages that quote a number are kept as their template
MsgMinLength(n) == "Must be at least {min} characters long"
MsgMaxLength(n) == "Must be no more than {max} characters long"
MsgMin(n) == "Must be at least {min}"
MsgMax(n) == "Must be no more than {max}"

\* CUSTOMER_REQUEST_SCHEMA.pickup_date.custom
PickupDateCustom(value, clock) ==
    LET inputDate == ParseDate(value)
    IN IF inputDate = Null THEN Some("Please select a valid date")
       ELSE IF inputDate[1] < TodayMidnight(clock)
            THEN Some("Pickup date must be today or in the future")
       ELSE IF inputDate[1] > OneYearFromNow(clock)
            THEN Some("Pickup date cannot be more than 1 year in the future")
       ELSE Null

CustomTest(custom, value, clock) ==
    CASE custom = "pickup_date" -> PickupDateCustom(value, clock)

\* A ValidationRule.  An absent property is Null; minLength and maxLength of 0
\* behave as absent (the code tests them for truthiness).
Rule(required, minLength, maxLength, pattern, custom, message) ==
    [required |-> required, minLength |-> minLength, maxLength |-> maxLength,
     min |-> Null, max |-> Null, pattern |-> pattern, custom |-> custom,
     message |-> message]

Invalid(msg) == [isValid |-> FALSE, error |-> Some(msg)]
Valid == [isValid |-> TRUE, error |-> Null]

\* rules.message || fallback
MessageOr(rules, fallback) == IF rules.message # Null THEN rules.message[1] ELSE fallback

\* validateField(value, rules)
validateField(value, rules, clock) ==
    IF value = <<>> THEN
        IF rules.required THEN Invalid(MessageOr(rules, MsgRequired)) ELSE Valid
    ELSE
    LET stringValue == Trim(value)
        num == NumberOfText(stringValue)
    IN IF rules.required /\ Len(stringValue) = 0
         THEN Invalid(MessageOr(rules, MsgRequired))
       ELSE IF rules.minLength # 0 /\ Len(stringValue) < rules.minLength
         THEN Invalid(MessageOr(rules, MsgMinLength(rules.minLength)))
       ELSE IF rules.maxLength # 0 /\ Len(stringValue) > rules.maxLength
         THEN Invalid(MessageOr(rules, MsgMaxLength(rules.maxLength)))
       ELSE IF rules.min # Null /\ num.t = "num" /\ num.v < rules.min[1]
         THEN Invalid(MessageOr(rules, MsgMin(rules.min[1])))
       ELSE IF rules.max # Null /\ num.t = "num" /\ num.v > rules.max[1]
         THEN Invalid(MessageOr(rules, MsgMax(rules.max[1])))
       ELSE IF rules.pattern # Null /\ ~PatternTest(rules.pattern[1], stringValue)
         THEN Invalid(MessageOr(rules, MsgPattern))
       ELSE IF rules.custom # Null /\ CustomTest(rules.custom[1], value, clock) # Null
         THEN Invalid(CustomTest(rules.custom[1], value, clock)[1])
       ELSE Valid

NameMinLength == 2
NameMaxLength == 100
AddressMinLength == 10
AddressMaxLength == 200
InstructionsMaxLength == 500

\* CUSTOMER_REQUEST_SCHEMA
CUSTOMER_REQUEST_SCHEMA ==
    [customer_name |->
        Rule(TRUE, NameMinLength, NameMaxLength, Some("name"), Null,
             Some("Please enter your full name")),
     customer_email |->
        Rule(TRUE, 0, 0, Some("email"), Null, Some("Please enter a valid email address")),
     customer_phone |->
        Rule(TRUE, 0, 0, Some("phoneUS"), Null, Some("Please enter a valid phone number")),
     pickup_address |->
        Rule(TRUE, AddressMinLength, AddressMaxLength, Some("address"), Null,
             Some("Please enter a complete address")),
     pickup_date |->
        Rule(TRUE, 0, 0, Null, Some("pickup_date"), Null),
     pickup_time_slot |->
        Rule(TRUE, 0, 0, Null, Null, Some("Please select a pickup time slot")),
     special_instructions |->
        Rule(FALSE, 0, InstructionsMaxLength, Null, Null,
             Some("Special instructions cannot exceed 500 characters"))]

\* validateForm(data, rules): the fields of rules that data fails, with their messages
validateForm(data, rules, clock) ==
    LET failing == {f \in DOMAIN rules : ~validateField(data[f], rules[f], clock).isValid}
    IN [isValid |-> failing = {},
        errors |-> [f \in failing |-> validateField(data[f], rules[f], clock).error[1]]]

(***************************************************************************)
(* The customer form (pages/CustomerRequest.tsx)                           *)
(***************************************************************************)
\* useForm defaultValues: every text field empty, pickupTime 'morning'
DefaultValues ==
    [fullName |-> <<>>, email |-> <<>>, phone |-> <<>>, address |-> <<>>,
     pickupDate |-> <<>>, pickupTime |-> <<"morning">>, notes |-> <<>>]

\* getTomorrowISO(): local midnight of tomorrow, printed as a UTC date
getTomorrowISO(clock) == ISODateText((LocalDay(clock) + 1) * 24 - clock.tz)

\* getTwoWeeksISO()
getTwoWeeksISO(clock) == ISODateText((LocalDay(clock) + 14) * 24 - clock.tz)

\* <input type="date" min=... max=...>: the browser submits the form only with
\* an empty date (left to `required`) or a date within [min, max]
DateInputInRange(value, clock) ==
    \/ value = <<>>
    \/ /\ ParseDate(value) # Null
       /\ ParseDate(getTomorrowISO(clock))[1] <= ParseDate(value)[1]
       /\ ParseDate(value)[1] <= ParseDate(getTwoWeeksISO(clock))[1]

\* the rules given to register(): the fields react-hook-form rejects
RegisterErrors(data) ==
    {f \in {"fullName", "email", "phone", "address", "pickupDate", "pickupTime"} :
        data[f] = <<>>}
    \cup (IF data.email # <<>> /\ ~MatchesEmail(data.email) THEN {"email"} ELSE {})

\* the pickup_time_slot label written for a pickupTime value
TimeSlotLabel(pickupTime) ==
    IF pickupTime = <<"morning">> THEN <<"Morning 8-12">>
    ELSE IF pickupTime = <<"afternoon">> THEN <<"Afternoon 12-16">>
    ELSE <<"Evening 16-20">>

\* Number(data.quantities?.[s.id] || 0)
SubmitQty(value, s) == JNumber(JOr(QtyOf(value, s.id), JNum(0)))

\* const selected = items.filter((s) => Number(data.quantities?.[s.id] || 0) > 0)
selectedOfAll(items, value) == items
selectedOfNonNegative(items, value) ==
    SelectSeq(items, LAMBDA s : SubmitQty(value, s).t = "num" /\ SubmitQty(value, s).v >= 0)
selectedOf(items, value) == SelectSeq(items, LAMBDA s : JGt0(SubmitQty(value, s)))

\* onSubmit's payload
buildPayloadPriceOnly(data, items, value) ==
    [customer_name |-> data.fullName,
     customer_email |-> data.email,
     customer_phone |-> data.phone,
     pickup_address |-> data.address,
     pickup_date |-> data.pickupDate,
     pickup_time_slot |-> TimeSlotLabel(data.pickupTime),
     special_instructions |-> data.notes,
     status |-> "pending",
     total_estimated_cost |->
        ToFixed2(SumNum([i \in 1..Len(selectedOf(items, value)) |->
                            JNum(UnitPrice(selectedOf(items, value)[i]))]))]
buildPayload(data, items, value) ==
    [customer_name |-> data.fullName,
     customer_email |-> data.email,
     customer_phone |-> data.phone,
     pickup_address |-> data.address,
     pickup_date |-> data.pickupDate,
     pickup_time_slot |-> TimeSlotLabel(data.pickupTime),
     special_instructions |-> data.notes,
     status |-> "pending",
     total_estimated_cost |-> ToFixed2(total(items, value))]

\* the addRequestService payloads of selected.map(...), numbered from base + 1
lineWritesForStaleId(sel, value, requestId, base) ==
    {[wid |-> base + i,
      request_id |-> requestId + 1,
      service_id |-> sel[i].id,
      quantity |-> SubmitQty(value, sel[i]),
      estimated_cost |-> ToFixed2(JMul(SubmitQty(value, sel[i]), UnitPrice(sel[i])))]
     : i \in 1..Len(sel)}
lineWritesFor(sel, value, requestId, base) ==
    {[wid |-> base + i,
      request_id |-> requestId,
      service_id |-> sel[i].id,
      quantity |-> SubmitQty(value, sel[i]),
      estimated_cost |-> ToFixed2(JMul(SubmitQty(value, sel[i]), UnitPrice(sel[i])))]
     : i \in 1..Len(sel)}

\* e.message || fallback
ErrorMessage(e, fallback) == IF e = "" THEN fallback ELSE e

\* messages the store may fail a write with
StoreErrors == {"Failed to fetch"}

NoServicesMessage == "Please select at least one service with quantity > 0."
SuccessMessage == "Request submitted successfully!"

\* field values a customer may type
GoodName == <<"A", "l">>
ShortName == <<"A">>
GoodEmail == <<"a", "@", "b", ".", "c">>
BadEmail == <<"a", "@", "b">>
GoodPhone == <<"5", "5", "5", "1", "2", "3", "4", "5", "6", "7">>
GoodAddress == <<"1", " ", "M", "a", "i", "n", " ", "S", "t", ".">>

\* the client's clock: 2026-03-10 14:00 UTC, two hours east of UTC
MainClock == [h |-> DaysFromCivil(2026, 3, 10) * 24 + 14, tz |-> 2]

\* a form filled in correctly: every field satisfies CUSTOMER_REQUEST_SCHEMA
GoodDraft ==
    [fullName |-> GoodName, email |-> GoodEmail, phone |-> GoodPhone,
     address |-> GoodAddress,
     pickupDate |-> ISODateText((LocalDay(MainClock) + 1) * 24),
     pickupTime |-> <<"morning">>, notes |-> <<>>]

\* the forms a customer types in the submission workflow
Drafts == {GoodDraft}

\* forms that the form's own rules accept or reject and the rule set rejects
FaultyDrafts ==
    {[GoodDraft EXCEPT !.fullName = ShortName],
     [GoodDraft EXCEPT !.email = BadEmail]}

\* what the customer may type into a quantity box: Number(e.target.value)
RawQuantities == {JNum(n) : n \in (-1)..MaxQty} \cup {JNaN}

(***************************************************************************)
(* Initial state: the page has just been opened on an empty order book     *)
(***************************************************************************)
\* the browser tabs of one origin: they share localStorage
Tabs == 1..MaxTabs

\* a tab in which the admin route is not open: layout and form are the
\* isAuthed states of the useAdminAuth() instances of AdminLayout and of
\* AdminLoginForm, Null while the component is not mounted
TabClosed == [layout |-> Null, form |-> Null, password |-> <<>>, error |-> Null]

\* nothing is persisted under 'admin-authenticated' and no tab is open; env
\* holds VITE_ADMIN_PASSWORD and REACT_APP_ADMIN_PASSWORD of the build
LoggedOut(env) == [env |-> env, flag |-> Null, tabs |-> [t \in Tabs |-> TabClosed]]

\* no filter is set, no catalog write is in flight, nobody has logged in and
\* the admin layout is not mounted
SessionIdle ==
    /\ statusFilter = "all"
    /\ serviceOps = {}
    /\ adminAuth = LoggedOut([vite |-> Null, cra |-> Null])

\* no library call has been made
LibIdle ==
    /\ validation = Null
    /\ csvContent = Null

\* the request pages of the back office are not open
RequestsClosed ==
    /\ requests = {}
    /\ selectedRequests = {}
    /\ batch = Null
    /\ updateWrites = {}
    /\ notifications = <<>>
    /\ adminPc = Null
    /\ pendingRequests = {}

\* no back office page is open
AdminClosed ==
    /\ adminServices = {}
    /\ detail = Null
    /\ RequestsClosed
    /\ LibIdle
    /\ SessionIdle

Init ==
    /\ laundry_services = InitialCatalog
    /\ laundry_requests = {}
    /\ request_services = {}
    /\ services = Null
    /\ selServices = Null
    /\ now = MainClock
    /\ formData = DefaultValues
    /\ quantities = <<>>
    /\ errors = {}
    /\ submitLoading = FALSE
    /\ submitError = Null
    /\ submitSuccess = Null
    /\ toast = Null
    /\ pc = "idle"
    /\ created = Null
    /\ selected = <<>>
    /\ lineWrites = {}
    /\ inflight = {}
    /\ onSubmitData = Null
    /\ payload = Null
    /\ nextId = 1
    /\ priceView = Null
    /\ AdminClosed

storeVars == <<laundry_services, laundry_requests, request_services, nextId>>
submitVars == <<submitLoading, submitError, submitSuccess, toast, pc, created, selected,
                lineWrites, inflight, onSubmitData, payload>>

\* CustomerRequest's useEffect: load(), with the read succeeding or failing
LoadServices(ok) ==
    /\ services = Null
    /\ services' = Some(IF ok THEN listActiveServices ELSE <<>>)
    /\ UNCHANGED <<storeVars, submitVars, selServices, formData, quantities, errors, now,
                   priceView, adminVars>>

\* ServiceSelector's useEffect: load()
SelectorLoad(ok) ==
    /\ selServices = Null
    /\ selServices' = Some(IF ok THEN listActiveServices ELSE <<>>)
    /\ UNCHANGED <<storeVars, submitVars, services, formData, quantities, errors, now,
                   priceView, adminVars>>

\* the customer fills in the text fields; after a rejected submit
\* react-hook-form re-validates the fields as they change
EditForm(d) ==
    /\ ~submitLoading
    /\ formData # d
    /\ formData' = d
    /\ errors' = IF errors = {} THEN {} ELSE RegisterErrors(d)
    /\ UNCHANGED <<storeVars, submitVars, services, selServices, quantities, now,
                   priceView, adminVars>>

\* ServiceSelector.setQuantity(serviceId, nextQty), then the form's onChange
setQuantityNoClamp(value, serviceId, nextQty) ==
    [k \in DOMAIN value \cup {serviceId} |-> IF k = serviceId THEN nextQty ELSE value[k]]
setQuantity(value, serviceId, nextQty) ==
    LET safeQty == JMax0(JFloor(JOr(nextQty, JNum(0))))
        keys == IF safeQty = JNum(0) THEN DOMAIN value \ {serviceId}
                ELSE DOMAIN value \cup {serviceId}
    IN [k \in keys |-> IF k = serviceId THEN safeQty ELSE value[k]]

SetQuantity(serviceId, nextQty) ==
    /\ ~submitLoading
    /\ selServices # Null
    /\ \E i \in 1..Len(Items(selServices)) : Items(selServices)[i].id = serviceId
    /\ quantities' = setQuantity(quantities, serviceId, nextQty)
    /\ quantities' # quantities
    /\ UNCHANGED <<storeVars, submitVars, services, selServices, formData, errors, now,
                   priceView, adminVars>>

(***************************************************************************)
(* handleSubmit(onSubmit)                                                  *)
(***************************************************************************)
\* onSubmit returns: its locals are gone
Return ==
    /\ pc' = "idle"
    /\ created' = Null
    /\ selected' = <<>>
    /\ payload' = Null
    /\ onSubmitData' = Null

CanSubmit ==
    /\ pc = "idle"
    /\ ~submitLoading
    /\ DateInputInRange(formData.pickupDate, now)

\* react-hook-form rejects the fields: onSubmit is not called
SubmitInvalid ==
    /\ CanSubmit
    /\ RegisterErrors(formData) # {}
    /\ errors' = RegisterErrors(formData)
    /\ UNCHANGED <<storeVars, submitVars, services, selServices, formData, quantities,
                   now, priceView, adminVars>>

\* onSubmit, no service selected: the early return (and the finally block)
SubmitNoServices ==
    /\ CanSubmit
    /\ RegisterErrors(formData) = {}
    /\ selectedOf(Items(services), quantities) = <<>>
    /\ errors' = {}
    /\ submitSuccess' = Null
    /\ submitError' = Some(NoServicesMessage)
    /\ submitLoading' = FALSE
    /\ Return
    /\ UNCHANGED <<storeVars, services, selServices, formData, quantities, toast,
                   lineWrites, inflight, now, priceView, adminVars>>

\* onSubmit up to `await createLaundryRequest(payload)`
SubmitStart ==
    /\ CanSubmit
    /\ RegisterErrors(formData) = {}
    /\ selectedOf(Items(services), quantities) # <<>>
    /\ nextId <= MaxOrders
    /\ errors' = {}
    /\ onSubmitData' = Some([form |-> formData, quantities |-> quantities])
    /\ selected' = selectedOf(Items(services), quantities)
    /\ payload' = Some(buildPayload(formData, Items(services), quantities))
    /\ created' = Null
    /\ submitError' = Null
    /\ submitSuccess' = Null
    /\ submitLoading' = TRUE
    /\ pc' = "creating"
    /\ UNCHANGED <<storeVars, services, selServices, formData, quantities, toast,
                   lineWrites, inflight, now, priceView, adminVars>>

\* the catch block, then finally
CatchAndReset(e) ==
    /\ submitError' = Some(ErrorMessage(e, "Something went wrong"))
    /\ toast' = Some([msg |-> ErrorMessage(e, "Submission failed"), type |-> "error"])
    /\ submitLoading' = FALSE
    /\ Return
    /\ formData' = DefaultValues
    /\ quantities' = <<>>
    /\ UNCHANGED <<submitSuccess, errors>>
CatchWithoutFinally(e) ==
    /\ submitError' = Some(ErrorMessage(e, "Something went wrong"))
    /\ toast' = Some([msg |-> ErrorMessage(e, "Submission failed"), type |-> "error"])
    /\ submitLoading' = submitLoading
    /\ Return
    /\ UNCHANGED <<submitSuccess, formData, quantities, errors>>
Catch(e) ==
    /\ submitError' = Some(ErrorMessage(e, "Something went wrong"))
    /\ toast' = Some([msg |-> ErrorMessage(e, "Submission failed"), type |-> "error"])
    /\ submitLoading' = FALSE
    /\ Return
    /\ UNCHANGED <<submitSuccess, formData, quantities, errors>>

\* the three statements after Promise.all, then finally
Succeed ==
    /\ submitSuccess' = Some(SuccessMessage)
    /\ toast' = Some([msg |-> SuccessMessage, type |-> "success"])
    /\ formData' = DefaultValues
    /\ quantities' = <<>>
    /\ errors' = {}
    /\ submitLoading' = FALSE
    /\ Return
    /\ UNCHANGED submitError

\* the laundry_requests row an insert of p creates
RequestRow(id, p) ==
    [id |-> id,
     customer_name |-> p.customer_name,
     customer_email |-> p.customer_email,
     customer_phone |-> p.customer_phone,
     pickup_address |-> p.pickup_address,
     pickup_date |-> p.pickup_date,
     pickup_time_slot |-> p.pickup_time_slot,
     special_instructions |-> p.special_instructions,
     status |-> p.status,
     total_estimated_cost |-> p.total_estimated_cost,
     internal_notes |-> <<>>]

\* createLaundryRequest fails: `throw new Error(created.error)`
CreateFailsButLinesIssued(e) ==
    /\ pc = "creating"
    /\ lineWrites' = lineWrites
          \cup lineWritesFor(selected, onSubmitData[1].quantities, nextId,
                             Cardinality(lineWrites))
    /\ inflight' = inflight \cup {w.wid : w \in lineWrites' \ lineWrites}
    /\ Catch(e)
    /\ UNCHANGED <<storeVars, services, selServices, now, priceView, adminVars>>
CreateFails(e) ==
    /\ pc = "creating"
    /\ Catch(e)
    /\ UNCHANGED <<storeVars, services, selServices, lineWrites, inflight, now,
                   priceView, adminVars>>

\* createLaundryRequest succeeds: the row is stored, and selected.map(...) issues
\* one addRequestService per selected service before Promise.all is awaited
CreateSucceeds ==
    /\ pc = "creating"
    /\ LET row == RequestRow(nextId, payload[1])
       IN /\ laundry_requests' = laundry_requests \cup {row}
          /\ nextId' = nextId + 1
          /\ created' = Some([ok |-> TRUE, data |-> Some(row), error |-> Null])
          /\ lineWrites' = lineWrites
                \cup lineWritesFor(selected, onSubmitData[1].quantities, row.id,
                                   Cardinality(lineWrites))
          /\ inflight' = inflight \cup {w.wid : w \in lineWrites' \ lineWrites}
    /\ pc' = "lines"
    /\ UNCHANGED <<laundry_services, request_services, services, selServices, formData,
                   quantities, errors, submitLoading, submitError, submitSuccess, toast,
                   selected, onSubmitData, payload, now, priceView, adminVars>>

\* the write with id wid
WriteOf(wid) == CHOOSE w \in lineWrites : w.wid = wid

\* is the write awaited by the Promise.all of the running onSubmit?
Awaited(w) ==
    /\ pc = "lines"
    /\ created # Null /\ created[1].ok
    /\ w.request_id = created[1].data[1].id

\* Promise.all resolves once every write of the request has resolved
AllResolvedEarly(rest, requestId) == TRUE
AllResolved(rest, requestId) ==
    \A wid \in rest : WriteOf(wid).request_id # requestId

\* an addRequestService call fails: `throw new Error(rs.error)` rejects Promise.all
\* when onSubmit still awaits it
LineFails(wid, e) ==
    /\ wid \in inflight
    /\ inflight' = inflight \ {wid}
    /\ IF Awaited(WriteOf(wid))
       THEN Catch(e)
       ELSE UNCHANGED <<submitError, toast, submitLoading, pc, submitSuccess, formData,
                        quantities, errors, created, selected, onSubmitData, payload>>
    /\ UNCHANGED <<storeVars, services, selServices, lineWrites, now, priceView, adminVars>>

\* an addRequestService call succeeds: the row is stored (request_services
\* checks quantity >= 0)
LineSucceeds(wid) ==
    /\ wid \in inflight
    /\ LET w == WriteOf(wid)
       IN /\ w.quantity.t = "num" /\ w.quantity.v >= 0
          /\ \E r \in laundry_requests : r.id = w.request_id
          /\ request_services' = request_services \cup
                {[id |-> w.wid, request_id |-> w.request_id, service_id |-> w.service_id,
                  quantity |-> w.quantity, estimated_cost |-> w.estimated_cost]}
          /\ inflight' = inflight \ {wid}
          /\ IF Awaited(w) /\ AllResolved(inflight', w.request_id)
             THEN Succeed
             ELSE UNCHANGED <<submitError, toast, submitLoading, pc, submitSuccess,
                              formData, quantities, errors, created, selected,
                              onSubmitData, payload>>
    /\ UNCHANGED <<laundry_services, laundry_requests, nextId, services, selServices,
                   lineWrites, now, priceView, adminVars>>

Next ==
    \/ \E ok \in BOOLEAN : LoadServices(ok)
    \/ \E ok \in BOOLEAN : SelectorLoad(ok)
    \/ \E d \in Drafts : EditForm(d)
    \/ \E id \in ServiceIds, q \in RawQuantities : SetQuantity(id, q)
    \/ SubmitInvalid
    \/ SubmitNoServices
    \/ SubmitStart
    \/ \E e \in StoreErrors : CreateFails(e)
    \/ CreateSucceeds
    \/ \E wid \in inflight, e \in StoreErrors : LineFails(wid, e)
    \/ \E wid \in inflight : LineSucceeds(wid)

Spec == Init /\ [][Next]_vars

(***************************************************************************)
(* Pricing as a function of its inputs: any pricing shape of a service,    *)
(* any `value` handed to ServiceSelector                                   *)
(***************************************************************************)
PricingPrices == {Null, Some(0), Some(250)}

PricingCatalogs ==
    {<<Service("svc1", 1, item, pound, TRUE), Service("svc2", 2, Null, Some(150), TRUE)>>
     : item \in PricingPrices, pound \in {Null, Some(0), Some(300)}}

\* a quantity entry of `value`: absent, NaN, or a number (negative ones included)
PricingQuantities == {JUndef, JNaN} \cup {JNum(n) : n \in (-2)..MaxQty}

InitPricing ==
    /\ laundry_services = InitialCatalog
    /\ laundry_requests = {}
    /\ request_services = {}
    /\ \E c \in PricingCatalogs : services = Some(c) /\ selServices = Some(c)
    /\ quantities \in [ServiceIds -> PricingQuantities]
    /\ now = MainClock
    /\ formData = GoodDraft
    /\ errors = {}
    /\ submitLoading = FALSE
    /\ submitError = Null
    /\ submitSuccess = Null
    /\ toast = Null
    /\ pc = "idle"
    /\ created = Null
    /\ selected = <<>>
    /\ lineWrites = {}
    /\ inflight = {}
    /\ onSubmitData = Null
    /\ payload = Null
    /\ nextId = 1
    /\ priceView = Null
    /\ AdminClosed

\* ServiceSelector and CustomerRequest render, and onSubmit computes what it
\* would write, from the same catalog and quantities
PricingRender ==
    /\ priceView = Null
    /\ priceView' = Some(
         [lineTotals |-> lineTotals(Items(selServices), quantities),
          overallTotal |-> total(Items(selServices), quantities),
          summary |-> orderSummary(Items(services), quantities),
          payloadTotal |-> buildPayload(formData, Items(services),
                                        quantities).total_estimated_cost,
          lines |-> lineWritesFor(selectedOf(Items(services), quantities),
                                  quantities, nextId, 0)])
    /\ UNCHANGED <<storeVars, submitVars, services, selServices, formData, quantities,
                   errors, now, adminVars>>

SpecPricing == InitPricing /\ [][PricingRender]_vars

\* the same workflow, with customers who also type faulty forms
NextDrafts ==
    \/ Next
    \/ \E d \in FaultyDrafts : EditForm(d)

SpecDrafts == Init /\ [][NextDrafts]_vars

(***************************************************************************)
(* Properties of the submission workflow                                   *)
(***************************************************************************)
\* the services of a list to which a value gives a quantity above 0
Requested(items, value) ==
    {items[i] : i \in {j \in 1..Len(items) :
                         /\ items[j].id \in DOMAIN value
                         /\ value[items[j].id].t = "num"
                         /\ value[items[j].id].v > 0}}

\* no entry of a value is a quantity above 0
NoneRequested(value) ==
    \A id \in DOMAIN value : ~(value[id].t = "num" /\ value[id].v > 0)

\* the line writes that carry a request id
WritesOf(writes, requestId) == {w \in writes : w.request_id = requestId}

\* a step in which onSubmit ran or moved on
SubmissionStep ==
    \/ pc' # pc
    \/ submitError' # submitError
    \/ submitSuccess' # submitSuccess

\* C1: an addRequestService call is issued only in the step in which
\* createLaundryRequest resolves successfully, when the order row is in the
\* store, and it carries the id of that row.
C1_LinesAfterCreate ==
    [][\A w \in lineWrites' \ lineWrites :
          /\ pc = "creating"
          /\ created' # Null
          /\ created'[1].ok
          /\ created'[1].data[1] \in laundry_requests'
          /\ created'[1].data[1] \notin laundry_requests
          /\ w.request_id = created'[1].data[1].id]_vars

C1_Witness ==
    /\ pc = "lines"
    /\ Cardinality(WritesOf(lineWrites, created[1].data[1].id)) = 2

\* C2: the step that shows the success message and resets the form leaves the
\* store holding the order row and exactly one line row for every service
\* that was submitted with a quantity above 0.
C2_SuccessMeansPersisted ==
    [][(submitSuccess' # Null /\ submitSuccess' # submitSuccess) =>
          /\ created # Null /\ created[1].ok
          /\ created[1].data[1] \in laundry_requests'
          /\ \A s \in Requested(Items(services), onSubmitData[1].quantities) :
                Cardinality({r \in request_services' :
                                /\ r.request_id = created[1].data[1].id
                                /\ r.service_id = s.id}) = 1
          /\ formData' = DefaultValues
          /\ quantities' = <<>>]_vars

C2_Witness ==
    /\ submitSuccess = Some(SuccessMessage)
    /\ Cardinality(request_services) = 2
    /\ formData = DefaultValues

\* what the page shows of an outcome
Report(err, shown) == [submitError |-> err, toast |-> shown]

\* the reports a failed createLaundryRequest (nothing persisted) can end in
CreateFailureReports ==
    {Report(Some(ErrorMessage(e, "Something went wrong")),
            Some([msg |-> ErrorMessage(e, "Submission failed"), type |-> "error"]))
     : e \in StoreErrors}

\* C3: when the order row was created and a line write fails, the outcome
\* onSubmit reports differs from every report of a failed create.
C3_PartialFailureDistinct ==
    [][(pc = "lines" /\ pc' = "idle" /\ submitSuccess' = Null) =>
          Report(submitError', toast') \notin CreateFailureReports]_vars

\* C4: the step in which createLaundryRequest fails issues no line write, leaves
\* the three tables as they were, shows the error and keeps the form's values;
\* no line write carries an id the store never returned.
C4_FailedCreateLeavesNothing ==
    [][(pc = "creating" /\ pc' = "idle") =>
          /\ lineWrites' = lineWrites
          /\ inflight' = inflight
          /\ laundry_requests' = laundry_requests
          /\ request_services' = request_services
          /\ \A w \in lineWrites' : w.request_id < nextId'
          /\ submitError' # Null
          /\ submitSuccess' = Null
          /\ formData' = formData
          /\ quantities' = quantities]_vars

C4_Witness ==
    /\ pc = "idle"
    /\ submitError = Some("Failed to fetch")
    /\ laundry_requests = {}
    /\ lineWrites = {}
    /\ formData = GoodDraft
    /\ quantities # <<>>

\* C5: when the fields pass the form's rules and no quantity is above 0, a
\* run of onSubmit ends with the 'select at least one service' error and
\* writes nothing: no create is issued, no line write is issued.
C5_NoServicesNoWrite ==
    [][(/\ pc = "idle"
        /\ RegisterErrors(formData) = {}
        /\ NoneRequested(quantities)
        /\ SubmissionStep) =>
          /\ submitError' = Some(NoServicesMessage)
          /\ submitSuccess' = Null
          /\ pc' = "idle"
          /\ ~submitLoading'
          /\ payload' = Null
          /\ lineWrites' = lineWrites
          /\ laundry_requests' = laundry_requests
          /\ request_services' = request_services]_vars

C5_Witness ==
    /\ submitError = Some(NoServicesMessage)
    /\ services # Null /\ Len(Items(services)) = 2
    /\ formData = GoodDraft
    /\ NoneRequested(quantities)
    /\ laundry_requests = {}
    /\ lineWrites = {}

\* C6: no run of onSubmit on a draft that the validation rule set
\* (CUSTOMER_REQUEST_SCHEMA) rejects issues a store write.
C6_InvalidDraftRejected ==
    [][(/\ pc = "idle"
        /\ ~validateForm(buildPayload(formData, Items(services), quantities),
                         CUSTOMER_REQUEST_SCHEMA, now).isValid) =>
          /\ pc' = "idle"
          /\ payload' = Null
          /\ laundry_requests' = laundry_requests]_vars

\* the unit price of a service, in cents: per item when present, else per
\* pound when present, else 0
ExpectedUnitPrice(s) ==
    IF s.price_per_item # Null THEN s.price_per_item[1]
    ELSE IF s.price_per_pound # Null THEN s.price_per_pound[1]
    ELSE 0

\* the sum of the cents fields of a set of records
RECURSIVE SumCents(_)
SumCents(S) ==
    IF S = {} THEN 0
    ELSE LET x == CHOOSE y \in S : TRUE IN x.cents + SumCents(S \ {x})

\* quantity times unit price, summed over the services with a quantity above 0
ExpectedTotal(items, value) ==
    SumCents({[id |-> s.id, cents |-> value[s.id].v * ExpectedUnitPrice(s)]
              : s \in Requested(items, value)})

\* the estimated costs of a set of line writes, summed
WrittenCosts(writes) ==
    SumCents({[id |-> w.wid, cents |-> ParseMoney(w.estimated_cost).v] : w \in writes})

\* C7: the payload of createLaundryRequest has status 'pending' and a total
\* equal to the sum of quantity times unit price over the services with a
\* quantity above 0, and the line writes issued for an order add up to the
\* total of that order.
C7_PendingAndTotal ==
    /\ payload # Null =>
          /\ payload[1].status = "pending"
          /\ ~payload[1].total_estimated_cost.nan
          /\ ParseMoney(payload[1].total_estimated_cost).v
                = ExpectedTotal(Items(services), onSubmitData[1].quantities)
    /\ \A r \in laundry_requests :
          /\ \A w \in WritesOf(lineWrites, r.id) : ~w.estimated_cost.nan
          /\ ParseMoney(r.total_estimated_cost).v = WrittenCosts(WritesOf(lineWrites, r.id))

C7_Witness ==
    /\ pc = "lines"
    /\ payload[1].total_estimated_cost = ToFixed2(JNum(650))
    /\ Cardinality(WritesOf(lineWrites, created[1].data[1].id)) = 2
    /\ \E w \in lineWrites : w.quantity = JNum(2)

\* C8: the selector keeps only quantities above 0, every line row stored has a
\* quantity above 0, and the line writes a submission issues are exactly one
\* per service with a quantity above 0, each carrying that quantity.
C8_OneLinePerRequestedService ==
    [][/\ \A id \in DOMAIN quantities' : JGt0(quantities'[id])
       /\ \A r \in request_services' : JGt0(r.quantity)
       /\ lineWrites' # lineWrites =>
             LET new == lineWrites' \ lineWrites
                 value == onSubmitData[1].quantities
                 items == Items(services)
             IN /\ \A i \in 1..Len(items) :
                      Cardinality({w \in new : w.service_id = items[i].id})
                         = IF items[i] \in Requested(items, value) THEN 1 ELSE 0
                /\ \A w \in new :
                      /\ JGt0(w.quantity)
                      /\ \E i \in 1..Len(items) : items[i].id = w.service_id
                      /\ w.quantity = value[w.service_id]]_vars

C8_Witness ==
    /\ Len(Items(services)) = 2
    /\ Cardinality(lineWrites) = 1
    /\ Cardinality(request_services) = 1
    /\ Cardinality(DOMAIN quantities) = 1

\* C9: a line total is quantity times unit price when the quantity is a number
\* that is 0 or more, and the number 0 when the quantity is negative, NaN or
\* absent.
C9_LineCost ==
    priceView # Null =>
       \A i \in 1..Len(Items(selServices)) :
          LET s == Items(selServices)[i]
              q == quantities[s.id]
          IN priceView[1].lineTotals[i]
                = IF q.t = "num" /\ q.v >= 0 THEN JNum(q.v * ExpectedUnitPrice(s))
                  ELSE JNum(0)

C9_Witness ==
    /\ priceView # Null
    /\ Items(selServices)[1].price_per_item = Some(250)
    /\ quantities["svc1"] = JNum(-2)
    /\ quantities["svc2"] = JNum(2)
    /\ priceView[1].lineTotals = <<JNum(0), JNum(300)>>

\* the service of a list with an id
ServiceWithId(items, id) == items[CHOOSE i \in 1..Len(items) : items[i].id = id]

\* C10: the selector's line totals, the rows of the order summary, the total of
\* the order payload and the estimated cost of every line payload all price a
\* service at its per-item price when it has one, else at its per-pound
\* price, else at 0.
C10_UnitPriceResolution ==
    priceView # Null =>
       LET items == Items(services)
           Qty(id) == IF quantities[id].t = "num" /\ quantities[id].v > 0
                      THEN quantities[id].v ELSE 0
           Cost(id) == Qty(id) * ExpectedUnitPrice(ServiceWithId(items, id))
       IN /\ \A i \in 1..Len(items) : priceView[1].lineTotals[i] = JNum(Cost(items[i].id))
          /\ \A k \in 1..Len(priceView[1].summary) :
                priceView[1].summary[k].lineTotal = JNum(Cost(priceView[1].summary[k].id))
          /\ priceView[1].overallTotal
                = JNum(SumCents({[id |-> id, cents |-> Cost(id)] : id \in ServiceIds}))
          /\ ParseMoney(priceView[1].payloadTotal) = priceView[1].overallTotal
          /\ \A w \in priceView[1].lines :
                ParseMoney(w.estimated_cost) = JNum(Cost(w.service_id))

C10_Witness ==
    /\ priceView # Null
    /\ Items(services)[1].price_per_item = Some(250)
    /\ Items(services)[1].price_per_pound = Some(300)
    /\ quantities["svc1"] = JNum(2)
    /\ quantities["svc2"] = JNum(1)
    /\ priceView[1].summary[1].lineTotal = JNum(500)
    /\ ParseMoney(priceView[1].payloadTotal) = JNum(650)
    /\ Cardinality(priceView[1].lines) = 2

(***************************************************************************)
(* The catalog back office (ServiceManagementPage) and the request detail  *)
(* view (RequestDetails), over a store that holds a submitted order        *)
(***************************************************************************)
\* the quantities a customer submitted: only entries above 0 are kept
SeedQuantities ==
    {[id \in D |-> JNum(q[id])] : D \in (SUBSET ServiceIds) \ {{}},
                                   q \in [ServiceIds -> 1..MaxQty]}

\* the order row and the line rows a completed submission of `value` stored
\* under the catalog Cat
SeedRequest(id, Cat, value) ==
    RequestRow(id, buildPayload(GoodDraft, SortByName({s \in Cat : s.is_active}), value))

SeedLines(id, Cat, value) ==
    {[id |-> w.wid, request_id |-> w.request_id, service_id |-> w.service_id,
      quantity |-> w.quantity, estimated_cost |-> w.estimated_cost]
     : w \in lineWritesFor(selectedOf(SortByName({s \in Cat : s.is_active}), value),
                           value, id, 0)}

\* the prices an administrator saves: at least one price, none negative
EditPrices == {<<Some(100), Null>>, <<Some(0), Some(300)>>}

\* the prices of a service an administrator creates
NewPrices == {<<Null, Some(200)>>}

\* a service an administrator creates
NewServiceIds == {"svc3"}

\* the customer page's state other than the toast
formVars == <<services, selServices, formData, quantities, errors, submitLoading,
              submitError, submitSuccess, pc, created, selected, lineWrites, inflight,
              onSubmitData, payload, now, priceView, libVars, sessionVars>>

InitCatalog ==
    /\ laundry_services = InitialCatalog
    /\ \E value \in SeedQuantities :
          /\ laundry_requests = {SeedRequest(1, InitialCatalog, value)}
          /\ request_services = SeedLines(1, InitialCatalog, value)
    /\ nextId = 2
    /\ services = Null
    /\ selServices = Null
    /\ now = MainClock
    /\ formData = DefaultValues
    /\ quantities = <<>>
    /\ errors = {}
    /\ submitLoading = FALSE
    /\ submitError = Null
    /\ submitSuccess = Null
    /\ toast = Null
    /\ pc = "idle"
    /\ created = Null
    /\ selected = <<>>
    /\ lineWrites = {}
    /\ inflight = {}
    /\ onSubmitData = Null
    /\ payload = Null
    /\ priceView = Null
    /\ adminServices = InitialCatalog
    /\ detail = Null
    /\ RequestsClosed
    /\ LibIdle
    /\ SessionIdle

\* a toast of the back office
Shown(msg, type) == Some([msg |-> msg, type |-> type])

\* submitService with form.id set: optimistic list update, then the store update
UpdateService(id, prices, ok) ==
    /\ \E s \in adminServices : s.id = id
    /\ adminServices' =
          {IF s.id = id
           THEN [s EXCEPT !.price_per_item = prices[1], !.price_per_pound = prices[2]]
           ELSE s : s \in adminServices}
    /\ IF ok /\ \E s \in laundry_services : s.id = id
       THEN /\ laundry_services' =
                 {IF s.id = id
                  THEN [s EXCEPT !.price_per_item = prices[1],
                                 !.price_per_pound = prices[2]]
                  ELSE s : s \in laundry_services}
            /\ toast' = Shown("Service updated", "success")
       ELSE /\ laundry_services' = laundry_services
            /\ toast' = Shown("Failed to fetch", "error")
    /\ UNCHANGED <<laundry_requests, request_services, nextId, detail, formVars,
                   requestVars>>

\* submitService without form.id: the store insert, then the list update
CreateService(id, prices, ok) ==
    /\ \A s \in laundry_services \cup adminServices : s.id # id
    /\ IF ok
       THEN /\ laundry_services' =
                 laundry_services \cup {Service(id, 3, prices[1], prices[2], TRUE)}
            /\ adminServices' =
                 adminServices \cup {Service(id, 3, prices[1], prices[2], TRUE)}
            /\ toast' = Shown("Service created", "success")
       ELSE /\ UNCHANGED <<laundry_services, adminServices>>
            /\ toast' = Shown("Failed to fetch", "error")
    /\ UNCHANGED <<laundry_requests, request_services, nextId, detail, formVars,
                   requestVars>>

\* toggleActive(s): optimistic flip, store update, revert on error
toggleActive(id, ok) ==
    /\ \E s \in adminServices : s.id = id
    /\ LET row == CHOOSE s \in adminServices : s.id = id
           nextActive == ~row.is_active
       IN IF ok
          THEN /\ adminServices' =
                    {IF s.id = id THEN [s EXCEPT !.is_active = nextActive] ELSE s
                     : s \in adminServices}
               /\ laundry_services' =
                    {IF s.id = id THEN [s EXCEPT !.is_active = nextActive] ELSE s
                     : s \in laundry_services}
               /\ toast' = Shown(IF nextActive THEN "Service activated"
                                 ELSE "Service archived", "success")
          ELSE /\ UNCHANGED <<adminServices, laundry_services>>
               /\ toast' = Shown("Failed to fetch", "error")
    /\ UNCHANGED <<laundry_requests, request_services, nextId, detail, formVars,
                   requestVars>>

\* request_services.service_id references laundry_services(id) on delete
\* restrict: a service that a line refers to cannot be deleted
deleteRestricted(lines, id) == \E l \in lines : l.service_id = id

\* removeServiceConfirmed(): optimistic removal, store delete, restore on error
removeServiceConfirmed(id, ok) ==
    /\ \E s \in adminServices : s.id = id
    /\ IF ok /\ ~deleteRestricted(request_services, id)
       THEN /\ adminServices' = {s \in adminServices : s.id # id}
            /\ laundry_services' = {s \in laundry_services : s.id # id}
            /\ toast' = Shown("Service deleted", "success")
       ELSE /\ UNCHANGED <<adminServices, laundry_services>>
            /\ toast' = Shown(IF ok THEN "violates foreign key constraint"
                              ELSE "Failed to fetch", "error")
    /\ UNCHANGED <<laundry_requests, request_services, nextId, detail, formVars,
                   requestVars>>

\* the amount RequestDetails shows for a line: Number(rs.estimated_cost || 0)
detailLineCostRecomputed(rs, Cat) ==
    IF \E s \in Cat : s.id = rs.service_id
    THEN JMul(rs.quantity, UnitPrice(CHOOSE s \in Cat : s.id = rs.service_id))
    ELSE JNum(0)
detailLineCost(rs, Cat) == JOr(ParseMoney(rs.estimated_cost), JNum(0))

\* the sum of a set of line amounts
RECURSIVE SumAmounts(_)
SumAmounts(S) ==
    IF S = {} THEN 0
    ELSE LET x == CHOOSE y \in S : TRUE IN x.cost.v + SumAmounts(S \ {x})

\* getRequestWithServices(id) and the render of RequestDetails: the line
\* amounts, and Number(request.total_estimated_cost || computedTotal || 0)
\* (an amount of 0 is falsy)
OpenDetails(id) ==
    /\ \E r \in laundry_requests : r.id = id
    /\ LET r == CHOOSE x \in laundry_requests : x.id = id
           shown == {[id |-> rs.id, service_id |-> rs.service_id,
                      cost |-> detailLineCost(rs, laundry_services)]
                     : rs \in {x \in request_services : x.request_id = id}}
           computedTotal == JNum(SumAmounts(shown))
       IN detail' = Some([request_id |-> id,
                          status |-> r.status,
                          lines |-> shown,
                          total |-> JOr(ParseMoney(r.total_estimated_cost),
                                        JOr(computedTotal, JNum(0)))])
    /\ UNCHANGED <<storeVars, adminServices, toast, formVars, requestVars>>

NextCatalog ==
    \/ \E id \in ServiceIds, prices \in EditPrices, ok \in BOOLEAN :
          UpdateService(id, prices, ok)
    \/ \E id \in NewServiceIds, prices \in NewPrices, ok \in BOOLEAN :
          CreateService(id, prices, ok)
    \/ \E id \in ServiceIds \cup NewServiceIds, ok \in BOOLEAN : toggleActive(id, ok)
    \/ \E id \in ServiceIds \cup NewServiceIds, ok \in BOOLEAN :
          removeServiceConfirmed(id, ok)
    \/ \E r \in laundry_requests : OpenDetails(r.id)

SpecCatalog == InitCatalog /\ [][NextCatalog]_vars

\* the catalog as it was when the stored order was submitted
PriceAtSubmission(serviceId) ==
    ExpectedUnitPrice(CHOOSE s \in InitialCatalog : s.id = serviceId)

\* C11: whatever the administrator edits, archives or deletes in the catalog,
\* every stored line still costs quantity times the unit price of the catalog
\* it was submitted under, every stored order total is still the sum of its
\* lines, and the detail view shows exactly those stored amounts.
C11_SnapshotKept ==
    /\ \A l \in request_services :
          ParseMoney(l.estimated_cost) = JNum(l.quantity.v * PriceAtSubmission(l.service_id))
    /\ \A r \in laundry_requests :
          ParseMoney(r.total_estimated_cost).v
             = SumCents({[id |-> l.id,
                          cents |-> l.quantity.v * PriceAtSubmission(l.service_id)]
                         : l \in {x \in request_services : x.request_id = r.id}})
    /\ detail # Null =>
          /\ \A x \in detail[1].lines :
                \E l \in request_services :
                   /\ l.id = x.id
                   /\ x.cost = JNum(l.quantity.v * PriceAtSubmission(l.service_id))
          /\ Cardinality(detail[1].lines)
                = Cardinality({l \in request_services : l.request_id = detail[1].request_id})
          /\ \E r \in laundry_requests :
                /\ r.id = detail[1].request_id
                /\ detail[1].total = ParseMoney(r.total_estimated_cost)

C11_Witness ==
    /\ detail # Null
    /\ \E x \in detail[1].lines : x.service_id = "svc1" /\ x.cost = JNum(500)
    /\ \E s \in laundry_services :
          s.id = "svc1" /\ s.price_per_item = Some(100) /\ ~s.is_active
    /\ \A s \in laundry_services : s.id # "svc2"

(***************************************************************************)
(* The request back office: RequestManagement's batch status update        *)
(***************************************************************************)
\* the statuses of laundry_requests.status
STATUS_OPTIONS == {"pending", "confirmed", "in_progress", "completed"}

\* the statuses an administrator picks in the model
StatusInputs == {"confirmed", "completed"}

\* the orders the store holds when the back office is opened: three submitted
\* orders, all pending
SeedIds == {1, 2, 3}
SeedValue == [svc1 |-> JNum(1)]
SeedRequests == {SeedRequest(id, InitialCatalog, SeedValue) : id \in SeedIds}
SeedRequestLines ==
    UNION {{[l EXCEPT !.id = <<id, l.id>>] : l \in SeedLines(id, InitialCatalog, SeedValue)}
           : id \in SeedIds}

\* the customer page is closed and the store holds the seeded orders
InitStore ==
    /\ laundry_services = InitialCatalog
    /\ laundry_requests = SeedRequests
    /\ request_services = SeedRequestLines
    /\ nextId = 4
    /\ services = Null
    /\ selServices = Null
    /\ now = MainClock
    /\ formData = DefaultValues
    /\ quantities = <<>>
    /\ errors = {}
    /\ submitLoading = FALSE
    /\ submitError = Null
    /\ submitSuccess = Null
    /\ toast = Null
    /\ pc = "idle"
    /\ created = Null
    /\ selected = <<>>
    /\ lineWrites = {}
    /\ inflight = {}
    /\ onSubmitData = Null
    /\ payload = Null
    /\ priceView = Null
    /\ adminServices = {}
    /\ detail = Null
    /\ LibIdle
    /\ SessionIdle

\* RequestManagement after its first loadRequests()
InitBatch ==
    /\ InitStore
    /\ requests = SeedRequests
    /\ selectedRequests = {}
    /\ batch = Null
    /\ updateWrites = {}
    /\ notifications = <<>>
    /\ adminPc = Null
    /\ pendingRequests = {}

\* updateRequest(id, patch) on the table: the row with the id takes the patch
updateRequestIgnored(rows, id, patch) == rows
updateRequestReplacesRow(rows, id, patch) ==
    {IF r.id = id
     THEN [r EXCEPT !.status = patch.status, !.internal_notes = <<>>,
                    !.total_estimated_cost = ToFixed2(JNum(0))]
     ELSE r : r \in rows}
updateRequest(rows, id, patch) ==
    {IF r.id = id
     THEN [r EXCEPT !.status = patch.status,
                    !.internal_notes = IF patch.internal_notes = Null
                                       THEN r.internal_notes
                                       ELSE patch.internal_notes[1]]
     ELSE r : r \in rows}

\* the number of back office operations that have issued an update write
OpsStarted == Cardinality({w.op : w \in updateWrites})

\* handleSelectRequest(requestId)
handleSelectRequest(requestId) ==
    /\ selectedRequests' = IF requestId \in selectedRequests
                           THEN selectedRequests \ {requestId}
                           ELSE selectedRequests \cup {requestId}
    /\ UNCHANGED <<storeVars, formVars, toast, adminServices, detail, requests, batch,
                   updateWrites, notifications, adminPc, pendingRequests>>

\* the update writes of Array.from(selectedRequests).map(...): one per id
batchWritesTwice(ids, status, op) ==
    {[op |-> op, n |-> n, id |-> id, status |-> status] : id \in ids, n \in {1, 2}}
batchWrites(ids, status, op) ==
    {[op |-> op, n |-> 1, id |-> id, status |-> status] : id \in ids}

\* handleBatchStatusUpdate up to `await Promise.all(promises)`
BatchStart(batchStatus) ==
    /\ batch = Null
    /\ adminPc = Null
    /\ selectedRequests # {}
    /\ OpsStarted < MaxBatches
    /\ updateWrites' = updateWrites
                          \cup batchWrites(selectedRequests, batchStatus, OpsStarted + 1)
    /\ batch' = Some([status |-> batchStatus,
                      ids |-> selectedRequests,
                      results |-> <<>>])
    /\ UNCHANGED <<storeVars, formVars, toast, adminServices, detail, requests,
                   selectedRequests, notifications, adminPc, pendingRequests>>

\* a result of updateRequest: ApiSuccess or ApiFailure
ApiOk == [ok |-> TRUE, error |-> ""]
ApiError(e) == [ok |-> FALSE, error |-> e]

\* one updateRequest call of the batch resolves
BatchWriteResolves(id, res) ==
    /\ batch # Null
    /\ id \in batch[1].ids
    /\ id \notin DOMAIN batch[1].results
    /\ laundry_requests' =
          IF res.ok
          THEN updateRequest(laundry_requests, id,
                             [status |-> batch[1].status, internal_notes |-> Null])
          ELSE laundry_requests
    /\ batch' = Some([batch[1] EXCEPT !.results =
                         [x \in DOMAIN batch[1].results \cup {id} |->
                             IF x = id THEN res ELSE batch[1].results[x]]])
    /\ UNCHANGED <<laundry_services, request_services, nextId, formVars, toast,
                   adminServices, detail, requests, selectedRequests, updateWrites,
                   notifications, adminPc, pendingRequests>>

\* the toast handleBatchStatusUpdate shows for the results of Promise.all
batchToast(results, size) ==
    LET failed == {id \in DOMAIN results : ~results[id].ok}
    IN IF failed = {}
       THEN Some([msg |-> "Updated {size} requests successfully", type |-> "success",
                  n |-> size, m |-> 0])
       ELSE Some([msg |-> "Updated {n} requests, {m} failed", type |-> "error",
                  n |-> Cardinality(DOMAIN results) - Cardinality(failed),
                  m |-> Cardinality(failed)])

\* handleBatchStatusUpdate after Promise.all: the toast (selectedRequests is
\* the set the handler was called with), and when nothing failed the
\* selection is cleared and loadRequests() runs
BatchFinish(loadOk) ==
    /\ batch # Null
    /\ DOMAIN batch[1].results = batch[1].ids
    /\ batch' = Null
    /\ IF \A id \in batch[1].ids : batch[1].results[id].ok
       THEN /\ selectedRequests' = {}
            /\ requests' = IF loadOk THEN laundry_requests ELSE requests
            /\ toast' = IF loadOk
                        THEN batchToast(batch[1].results, Cardinality(batch[1].ids))
                        ELSE Shown("Failed to fetch", "error")
       ELSE /\ toast' = batchToast(batch[1].results, Cardinality(batch[1].ids))
            /\ UNCHANGED <<selectedRequests, requests>>
    /\ UNCHANGED <<storeVars, formVars, adminServices, detail, updateWrites,
                   notifications, adminPc, pendingRequests>>

NextBatch ==
    \/ \E id \in SeedIds : handleSelectRequest(id)
    \/ \E st \in StatusInputs : BatchStart(st)
    \/ \E id \in SeedIds, res \in {ApiOk} \cup {ApiError(e) : e \in StoreErrors} :
          BatchWriteResolves(id, res)
    \/ \E loadOk \in BOOLEAN : BatchFinish(loadOk)

SpecBatch == InitBatch /\ [][NextBatch]_vars

\* C12: the step that starts a batch issues exactly one update write per
\* ticked id, every write of the batch resolves whatever the others did, and
\* when the batch ends every order whose write succeeded holds the new status
\* in the store.
C12_BatchWritesIndependent ==
    [][/\ (batch = Null /\ batch' # Null) =>
             /\ \A id \in selectedRequests :
                   Cardinality({w \in updateWrites' \ updateWrites : w.id = id}) = 1
             /\ \A w \in updateWrites' \ updateWrites :
                   w.id \in selectedRequests /\ w.status = batch'[1].status
       /\ (batch # Null /\ batch' # Null) =>
             \A id \in DOMAIN batch'[1].results :
                batch'[1].results[id].ok =>
                   \E r \in laundry_requests' : r.id = id /\ r.status = batch[1].status
       /\ (batch # Null /\ batch' = Null) =>
             /\ DOMAIN batch[1].results = batch[1].ids
             /\ \A id \in batch[1].ids :
                   batch[1].results[id].ok =>
                      \E r \in laundry_requests' : r.id = id /\ r.status = batch[1].status]_vars

C12_Witness ==
    /\ batch = Null
    /\ toast # Null /\ toast[1].type = "error" /\ toast[1].msg = "Updated {n} requests, {m} failed"
    /\ toast[1].n = 2
    /\ Cardinality({r \in laundry_requests : r.status = "confirmed"}) = 2
    /\ Cardinality({r \in laundry_requests : r.status = "pending"}) = 1

\* the outcomes a batch over a set of ids can have
Outcomes(ids) == [ids -> {ApiOk} \cup {ApiError(e) : e \in StoreErrors}]

\* C13: what a finished batch reports tells which ids failed: no other
\* outcome of the same batch, with other ids failing, gives the same report.
C13_PerIdResult ==
    [][(/\ batch # Null
        /\ batch' = Null
        /\ \E id \in batch[1].ids : ~batch[1].results[id].ok) =>
          \A other \in Outcomes(batch[1].ids) :
             other # batch[1].results =>
                batchToast(other, Cardinality(batch[1].ids)) # toast']_vars

(***************************************************************************)
(* Single-order updates: the inline edit of RequestManagement, the save of *)
(* RequestDetails, and 'Mark Confirmed' on AdminDashboardPage              *)
(***************************************************************************)
\* the reasons sendStatusUpdateEmail gives for a failure
MailErrors == {"Failed to send email"}

\* the dashboard list after loadData(): the pending rows, or none on error
pendingList(rows, loadOk) == IF loadOk THEN {r \in rows : r.status = "pending"} ELSE {}

\* RequestManagement and the dashboard after their first load
InitUpdates ==
    /\ InitStore
    /\ requests = SeedRequests
    /\ selectedRequests = {}
    /\ batch = Null
    /\ updateWrites = {}
    /\ notifications = <<>>
    /\ adminPc = Null
    /\ pendingRequests = pendingList(SeedRequests, TRUE)

\* an updateRequest call of a single-order handler
singleWrite(id, status, op) == {[op |-> op, n |-> 1, id |-> id, status |-> status]}

\* saveEditRequest -> updateSingleRequest(requestId, updates) up to the
\* notification call: the write, the local list, the toast, and, when
\* updates.status is set and the request is in the list, the call of
\* sendStatusUpdateNotification
updateSingleRequest(requestId, editStatus, res) ==
    /\ adminPc = Null
    /\ batch = Null
    /\ OpsStarted < MaxUpdates
    /\ \E r \in requests : r.id = requestId
    /\ updateWrites' = updateWrites \cup singleWrite(requestId, editStatus, OpsStarted + 1)
    /\ IF res.ok
       THEN /\ laundry_requests' =
                 updateRequest(laundry_requests, requestId,
                               [status |-> editStatus, internal_notes |-> Some(<<>>)])
            /\ requests' =
                 updateRequest(requests, requestId,
                               [status |-> editStatus, internal_notes |-> Some(<<>>)])
            /\ toast' = Shown("Request updated successfully", "success")
            /\ notifications' = Append(notifications,
                                       [request_id |-> requestId, status |-> editStatus,
                                        result |-> "pending"])
            /\ adminPc' = Some([id |-> requestId, call |-> Len(notifications) + 1])
       ELSE /\ toast' = Shown(ErrorMessage(res.error, "Failed to update request"), "error")
            /\ UNCHANGED <<laundry_requests, requests, notifications, adminPc>>
    /\ UNCHANGED <<laundry_services, request_services, nextId, formVars, adminServices,
                   detail, selectedRequests, batch, pendingRequests>>

\* sendStatusUpdateNotification resolves or throws; the inner try / catch of
\* updateSingleRequest shows its own toast
NotificationRevertsStatus(sent, e) ==
    /\ adminPc # Null
    /\ notifications' = [notifications EXCEPT ![adminPc[1].call].result =
                            IF sent THEN "sent" ELSE "failed"]
    /\ toast' = IF sent THEN Shown("Status update email sent", "success")
                ELSE Shown("Failed to update request", "error")
    /\ adminPc' = Null
    /\ requests' = IF sent THEN requests
                   ELSE updateRequest(requests, adminPc[1].id,
                                      [status |-> "pending", internal_notes |-> Null])
    /\ UNCHANGED <<storeVars, formVars, adminServices, detail, selectedRequests, batch,
                   updateWrites, pendingRequests>>
NotificationResolves(sent, e) ==
    /\ adminPc # Null
    /\ notifications' = [notifications EXCEPT ![adminPc[1].call].result =
                            IF sent THEN "sent" ELSE "failed"]
    /\ toast' = IF sent THEN Shown("Status update email sent", "success")
                ELSE Shown("Status updated but email failed: {e.message}", "error")
    /\ adminPc' = Null
    /\ UNCHANGED <<storeVars, formVars, adminServices, detail, requests, selectedRequests,
                   batch, updateWrites, pendingRequests>>

\* RequestDetails.saveStatus(), then the page's handleStatusUpdated
saveStatus(status, res) ==
    /\ detail # Null
    /\ adminPc = Null
    /\ OpsStarted < MaxUpdates
    /\ updateWrites' = updateWrites
                          \cup singleWrite(detail[1].request_id, status, OpsStarted + 1)
    /\ IF res.ok
       THEN /\ laundry_requests' =
                 updateRequest(laundry_requests, detail[1].request_id,
                               [status |-> status, internal_notes |-> Some(<<>>)])
            /\ toast' = Shown("Request updated", "success")
            /\ detail' = Some([detail[1] EXCEPT !.status = status])
       ELSE /\ toast' = Shown(ErrorMessage(res.error, "Failed to update request"), "error")
            /\ UNCHANGED <<laundry_requests, detail>>
    /\ UNCHANGED <<laundry_services, request_services, nextId, formVars, adminServices,
                   requests, selectedRequests, batch, notifications, adminPc,
                   pendingRequests>>

\* AdminDashboardPage.markConfirmed(id): the write, loadData(), the toast
markConfirmed(id, res, loadOk) ==
    /\ adminPc = Null
    /\ OpsStarted < MaxUpdates
    /\ \E r \in pendingRequests : r.id = id
    /\ updateWrites' = updateWrites \cup singleWrite(id, "confirmed", OpsStarted + 1)
    /\ IF res.ok
       THEN /\ laundry_requests' =
                 updateRequest(laundry_requests, id,
                               [status |-> "confirmed", internal_notes |-> Null])
            /\ pendingRequests' = pendingList(laundry_requests', loadOk)
            /\ toast' = Shown("Request marked as confirmed", "success")
       ELSE /\ toast' = Shown(ErrorMessage(res.error, "Failed to mark as confirmed"), "error")
            /\ UNCHANGED <<laundry_requests, pendingRequests>>
    /\ UNCHANGED <<laundry_services, request_services, nextId, formVars, adminServices,
                   detail, requests, selectedRequests, batch, notifications, adminPc>>

NextUpdates ==
    \/ \E id \in SeedIds, st \in StatusInputs,
          res \in {ApiOk} \cup {ApiError(e) : e \in StoreErrors} :
          updateSingleRequest(id, st, res)
    \/ \E sent \in BOOLEAN, e \in MailErrors : NotificationResolves(sent, e)
    \/ \E r \in laundry_requests : OpenDetails(r.id)
    \/ \E st \in StatusInputs, res \in {ApiOk} \cup {ApiError(e) : e \in StoreErrors} :
          saveStatus(st, res)
    \/ \E id \in SeedIds, res \in {ApiOk} \cup {ApiError(e) : e \in StoreErrors},
          loadOk \in BOOLEAN : markConfirmed(id, res, loadOk)

SpecUpdates == InitUpdates /\ [][NextUpdates]_vars

\* C14: a step in which a single-order update changes the stored status of an
\* order makes one notification call for that order with the new status.
C14_StatusChangeNotifies ==
    [][\A r \in laundry_requests : \A r2 \in laundry_requests' :
          (r.id = r2.id /\ r.status # r2.status) =>
             notifications' = Append(notifications,
                                     [request_id |-> r.id, status |-> r2.status,
                                      result |-> "pending"])]_vars

\* C15: in the step in which the notification of an update fails, the store
\* and the list keep the new status, the update had been reported as
\* successful, and the failure gets a message of its own.
C15_NotificationFailureSeparate ==
    [][(/\ adminPc # Null
        /\ adminPc' = Null
        /\ notifications'[adminPc[1].call].result = "failed") =>
          LET n == notifications[adminPc[1].call]
          IN /\ \E r \in laundry_requests' : r.id = n.request_id /\ r.status = n.status
             /\ \E r \in requests' : r.id = n.request_id /\ r.status = n.status
             /\ toast = Shown("Request updated successfully", "success")
             /\ toast' = Shown("Status updated but email failed: {e.message}", "error")]_vars

C15_Witness ==
    /\ adminPc = Null
    /\ Len(notifications) = 1
    /\ notifications[1] = [request_id |-> 2, status |-> "confirmed", result |-> "failed"]
    /\ \E r \in laundry_requests : r.id = 2 /\ r.status = "confirmed"
    /\ \E r \in requests : r.id = 2 /\ r.status = "confirmed"
    /\ toast = Shown("Status updated but email failed: {e.message}", "error")

\* the stored status of an order
statusIn(rows, id) == (CHOOSE r \in rows : r.id = id).status

\* C29: a single-order update that leaves the status of its order unchanged,
\* in the store and in the list (an inline edit that only changes the internal
\* notes), makes no notification call.
C29_NoNotificationWithoutChange ==
    [][\A id \in SeedIds :
          (/\ statusIn(laundry_requests', id) = statusIn(laundry_requests, id)
           /\ statusIn(requests', id) = statusIn(requests, id)) =>
             ~ \E st \in StatusInputs :
                  notifications' = Append(notifications,
                                          [request_id |-> id, status |-> st,
                                           result |-> "pending"])]_vars

\* what updateSingleRequest does ensure: a notification call is made only in
\* the step of a successful write, and it carries the status that write stored
C29_NotificationCarriesStoredStatus ==
    [][Len(notifications') > Len(notifications) =>
          LET n == notifications'[Len(notifications')]
          IN /\ toast' = Shown("Request updated successfully", "success")
             /\ statusIn(laundry_requests', n.request_id) = n.status]_vars

(***************************************************************************)
(* Whole-draft validation and sanitization (validateFormData)              *)
(***************************************************************************)
LowerChars == <<"a","b","c","d","e","f","g","h","i","j","k","l","m",
                "n","o","p","q","r","s","t","u","v","w","x","y","z">>
UpperChars == <<"A","B","C","D","E","F","G","H","I","J","K","L","M",
                "N","O","P","Q","R","S","T","U","V","W","X","Y","Z">>

\* String.prototype.toLowerCase, character by character
ToLowerCase(txt) ==
    [i \in 1..Len(txt) |->
        IF txt[i] \in Upper
        THEN LowerChars[CHOOSE k \in 1..Len(UpperChars) : UpperChars[k] = txt[i]]
        ELSE txt[i]]

\* input.replace(/[...]/g, ''): the characters of txt outside a set
Without(txt, S) == SelectSeq(txt, LAMBDA c : c \notin S)

\* sanitizeString: input.trim().replace(/[<>]/g, '')
sanitizeString(input) == Without(Trim(input), {"<", ">"})

\* sanitizeEmail: email.trim().toLowerCase()
sanitizeEmail(email) == ToLowerCase(Trim(email))

\* sanitizePhone: phone.replace(/[^\d\-\(\)\s\+]/g, '')
sanitizePhone(phone) ==
    SelectSeq(phone, LAMBDA c : c \in Digits \cup Whitespace \cup {"-", "(", ")", "+"})

\* sanitizeAddress: address.trim().replace(/[<>]/g, '')
sanitizeAddress(address) == Without(Trim(address), {"<", ">"})

\* the fields of a draft that hold strings
DraftFields ==
    {"customer_name", "customer_email", "customer_phone", "pickup_address",
     "pickup_date", "pickup_time_slot", "special_instructions"}

\* validateFormData(data, schema): validateForm, and every string field sanitized
validateFormData(data, schema, clock) ==
    LET v == validateForm(data, schema, clock)
    IN [isValid |-> v.isValid,
        errors |-> v.errors,
        sanitizedData |->
           [key \in DOMAIN data |->
               IF key \notin DraftFields THEN data[key]
               ELSE CASE key = "customer_email" -> sanitizeEmail(data[key])
                      [] key = "customer_phone" -> sanitizePhone(data[key])
                      [] key = "pickup_address" -> sanitizeAddress(data[key])
                      [] OTHER -> sanitizeString(data[key])]]

\* the three pickup time slots the form can send
TimeSlots == {TimeSlotLabel(<<"morning">>), TimeSlotLabel(<<"afternoon">>),
              TimeSlotLabel(<<"evening">>)}

\* the date text of a day that is `days` after the local day of a clock
DateAfter(clock, days) == ISODateText((LocalDay(clock) + days) * 24)

\* a draft in the field names of the rule set
Draft(name, email, phone, address, date, slot, notes) ==
    [customer_name |-> name, customer_email |-> email, customer_phone |-> phone,
     pickup_address |-> address, pickup_date |-> date, pickup_time_slot |-> slot,
     special_instructions |-> notes]

\* drafts handed to validateFormData: each field missing, well formed, padded
\* with whitespace or holding characters the sanitizers remove
SampleDrafts ==
    {Draft(name, email, phone, address, date, slot, notes) :
        name \in {<<>>, <<" ", " ">>, GoodName, <<" ", "A", "l", " ">>,
                  <<"<", " ", "A", "l">>},
        email \in {<<>>, GoodEmail, <<" ", "A", "@", "b", ".", "c">>},
        phone \in {<<>>, GoodPhone, <<" ">> \o GoodPhone, GoodPhone \o <<"x", "9">>},
        address \in {<<>>, GoodAddress, GoodAddress \o <<"<", "b", ">">>},
        date \in {<<>>, DateAfter(MainClock, -1), DateAfter(MainClock, 0),
                  DateAfter(MainClock, 1)},
        slot \in {<<>>, TimeSlotLabel(<<"morning">>), <<"Night 20-24">>},
        notes \in {<<>>, <<"<", "b", ">">>}}

\* the quantities that come with a draft: no service or one service selected
SampleQuantities == {<<>>, [svc1 |-> JNum(1)]}

\* the store and every page at rest, before a library function is applied
InitLib ==
    /\ laundry_services = InitialCatalog
    /\ laundry_requests = {}
    /\ request_services = {}
    /\ nextId = 1
    /\ services = Null
    /\ selServices = Null
    /\ formData = DefaultValues
    /\ errors = {}
    /\ submitLoading = FALSE
    /\ submitError = Null
    /\ submitSuccess = Null
    /\ toast = Null
    /\ pc = "idle"
    /\ created = Null
    /\ selected = <<>>
    /\ lineWrites = {}
    /\ inflight = {}
    /\ onSubmitData = Null
    /\ priceView = Null
    /\ adminServices = {}
    /\ detail = Null
    /\ RequestsClosed
    /\ SessionIdle

\* a draft, in the field names of the rule set, is about to be validated
InitValidation ==
    /\ InitLib
    /\ LibIdle
    /\ now = MainClock
    /\ quantities \in SampleQuantities
    /\ \E draft \in SampleDrafts : payload = Some(draft)

\* the variables a library function leaves alone
libFrame == <<storeVars, services, selServices, formData, quantities, errors,
              submitLoading, submitError, submitSuccess, toast, pc, created, selected,
              lineWrites, inflight, onSubmitData, payload, now, priceView,
              adminServices, detail, requestVars, sessionVars>>

\* validateFormData(draft, CUSTOMER_REQUEST_SCHEMA)
ValidateDraft ==
    /\ validation = Null
    /\ payload # Null
    /\ validation' = Some(validateFormData(payload[1], CUSTOMER_REQUEST_SCHEMA, now))
    /\ UNCHANGED <<libFrame, csvContent>>

SpecValidation == InitValidation /\ [][ValidateDraft]_vars

\* the rule of a field, as the rule set is described: a required field is
\* missing, empty or only whitespace, a text is out of its length or shape,
\* the pickup date is not a date or lies before today, the time slot is not
\* one of the three slots, the notes are too long
BreaksRule(draft, f, clock) ==
    LET v == Trim(draft[f])
    IN CASE f = "customer_name" ->
              v = <<>> \/ Len(v) < NameMinLength \/ Len(v) > NameMaxLength \/ ~MatchesName(v)
         [] f = "customer_email" -> v = <<>> \/ ~MatchesEmail(v)
         [] f = "customer_phone" -> v = <<>> \/ ~MatchesPhoneUS(v)
         [] f = "pickup_address" ->
              v = <<>> \/ Len(v) < AddressMinLength \/ Len(v) > AddressMaxLength
                       \/ ~MatchesAddress(v)
         [] f = "pickup_date" ->
              v = <<>> \/ ParseDate(draft[f]) = Null
                       \/ FloorDiv(ParseDate(draft[f])[1], 24) < LocalDay(clock)
         [] f = "pickup_time_slot" -> draft[f] \notin TimeSlots
         [] f = "special_instructions" -> Len(v) > InstructionsMaxLength

\* C16: validating a whole draft gives an error map with an entry for a field
\* exactly when the field breaks its rule (a required field missing, empty or
\* only whitespace, a pickup date before today, a time slot outside the three
\* slots) and an invalid result when no service is selected; the draft is
\* valid exactly when the map is empty.
C16_ErrorMapExact ==
    validation # Null =>
        /\ \A f \in DraftFields :
              (f \in DOMAIN validation[1].errors) <=> BreaksRule(payload[1], f, now)
        /\ validation[1].isValid <=> (DOMAIN validation[1].errors = {})
        /\ (\A id \in DOMAIN quantities : ~JGt0(quantities[id])) => ~validation[1].isValid

\* the part of C16 the rule set does implement: required fields, lengths,
\* shapes and the pickup date; the time slot only as a required field
C16_ImplementedRules ==
    validation # Null =>
        /\ \A f \in DraftFields \ {"pickup_time_slot"} :
              (f \in DOMAIN validation[1].errors) <=> BreaksRule(payload[1], f, now)
        /\ ("pickup_time_slot" \in DOMAIN validation[1].errors)
              <=> (Trim(payload[1].pickup_time_slot) = <<>>)
        /\ validation[1].isValid <=> (DOMAIN validation[1].errors = {})

(***************************************************************************)
(* The pickup-date rule at every time of day, in several time zones        *)
(***************************************************************************)
\* the client's offset from UTC, in hours (getTimezoneOffset() / -60)
UTCOffsets == {-8, -5, 0, 2, 9}

\* clock readings: every hour of one UTC day, in every offset
Clocks == {[h |-> DaysFromCivil(2026, 3, 10) * 24 + hour, tz |-> tz] :
              hour \in 0..23, tz \in UTCOffsets}

\* the local calendar day one year after the local day of a clock
DayOneYearOn(clock) == FloorDiv(OneYearFromNow(clock) + clock.tz, 24)

\* pickup dates around the two limits of the rule, as the date input sends them
DatesAround(clock) ==
    {DateAfter(clock, days) : days \in {-1, 0, 1}}
    \cup {ISODateText((DayOneYearOn(clock) + days) * 24) : days \in {0, 1}}

\* a draft that is well formed but for its pickup date, at some clock reading
InitDates ==
    /\ InitLib
    /\ LibIdle
    /\ quantities = [svc1 |-> JNum(1)]
    /\ now \in Clocks
    /\ \E date \in DatesAround(now) :
          payload = Some(Draft(GoodName, GoodEmail, GoodPhone, GoodAddress, date,
                               TimeSlotLabel(<<"morning">>), <<>>))

SpecDates == InitDates /\ [][ValidateDraft]_vars

\* the calendar day a date text names
DayNamed(txt) == FloorDiv(ParseDate(txt)[1], 24)

\* C17: the pickup-date rule compares calendar dates only: at every time of
\* day and in every UTC offset today's local date is accepted, yesterday's is
\* rejected and a date more than one year ahead is rejected.
C17_CalendarDatesOnly ==
    validation # Null =>
        LET day == DayNamed(payload[1].pickup_date)
            rejected == "pickup_date" \in DOMAIN validation[1].errors
        IN /\ day = LocalDay(now) => ~rejected
           /\ day = LocalDay(now) - 1 => rejected
           /\ day > DayOneYearOn(now) => rejected

\* what does hold at every clock reading: yesterday's date is rejected, and
\* today's date is accepted wherever local time is not behind UTC
C17_YesterdayRejected ==
    validation # Null =>
        LET day == DayNamed(payload[1].pickup_date)
            rejected == "pickup_date" \in DOMAIN validation[1].errors
        IN /\ day = LocalDay(now) - 1 => rejected
           /\ (day = LocalDay(now) /\ now.tz >= 0) => ~rejected
           /\ (day > DayOneYearOn(now) /\ now.tz >= 0) => rejected

(***************************************************************************)
(* The sanitized output of validateFormData                                *)
(***************************************************************************)
\* the characters a sanitized phone number may hold
PhoneChars == Digits \cup {"+", "(", ")", "-", " "}

\* the fields that hold free text
FreeTextFields == {"customer_name", "pickup_address", "special_instructions"}

\* txt holds none of the characters of S
NoneIn(txt, S) == \A i \in 1..Len(txt) : txt[i] \notin S

\* C18: for every draft the sanitized output has every string field free of
\* leading and trailing whitespace, the email in lower case, no '<' or '>' in
\* a free-text field, and a phone number made only of '+', digits,
\* parentheses, hyphens and spaces.
C18_SanitizedOutputClean ==
    validation # Null =>
        LET out == validation[1].sanitizedData
        IN /\ \A f \in DraftFields : Trim(out[f]) = out[f]
           /\ NoneIn(out.customer_email, Upper)
           /\ \A f \in FreeTextFields : NoneIn(out[f], {"<", ">"})
           /\ AllIn(out.customer_phone, PhoneChars)

\* what the sanitizers do achieve: a lower-case email, no '<' or '>' left in
\* free text, only phone characters left in the phone number, and a trimmed
\* field wherever the input held no '<' or '>' and is not the phone number
C18_SanitizedCharacters ==
    validation # Null =>
        LET out == validation[1].sanitizedData
        IN /\ NoneIn(out.customer_email, Upper)
           /\ \A f \in FreeTextFields : NoneIn(out[f], {"<", ">"})
           /\ AllIn(out.customer_phone, PhoneChars)
           /\ \A f \in DraftFields \ {"customer_phone"} :
                 NoneIn(payload[1][f], {"<", ">"}) => Trim(out[f]) = out[f]

(***************************************************************************)
(* Submission of forms whose text is not yet sanitized                     *)
(***************************************************************************)
\* forms the form's own rules accept and the sanitizers would change
RawDrafts ==
    {[GoodDraft EXCEPT !.email = <<"A", "@", "b", ".", "c">>],
     [GoodDraft EXCEPT !.fullName = <<" ", "A", "l", " ">>]}

NextRaw ==
    \/ Next
    \/ \E d \in RawDrafts : EditForm(d)

SpecRaw == Init /\ [][NextRaw]_vars

\* the sanitizers' output for the form onSubmit was called with
SanitizedForm(form, clock) ==
    validateFormData(Draft(form.fullName, form.email, form.phone, form.address,
                           form.pickupDate, TimeSlotLabel(form.pickupTime), form.notes),
                     CUSTOMER_REQUEST_SCHEMA, clock).sanitizedData

\* C19: every order persisted by the submission workflow holds sanitized
\* values: the customer fields sent in the create write are the sanitizers'
\* output (trimmed, email in lower case, '<' and '>' removed from free text),
\* never the raw form input.
C19_PayloadSanitized ==
    (payload # Null /\ onSubmitData # Null) =>
        \A f \in DraftFields :
            payload[1][f] = SanitizedForm(onSubmitData[1].form, now)[f]

\* what is written is the form input as typed
C19_PayloadRaw ==
    (payload # Null /\ onSubmitData # Null) =>
        /\ payload[1].customer_name = onSubmitData[1].form.fullName
        /\ payload[1].customer_email = onSubmitData[1].form.email
        /\ payload[1].customer_phone = onSubmitData[1].form.phone
        /\ payload[1].pickup_address = onSubmitData[1].form.address
        /\ payload[1].special_instructions = onSubmitData[1].form.notes

(***************************************************************************)
(* exportToCSV (components/admin/RequestManagement.tsx)                    *)
(***************************************************************************)
MaxRows == 2       \* orders in an exported list

\* String(n) of a whole number n >= 0
RECURSIVE DecimalText(_)
DecimalText(n) ==
    IF n < 10 THEN <<DigitChars[n + 1]>>
    ELSE DecimalText(n \div 10) \o <<DigitChars[(n % 10) + 1]>>

\* new Date(created_at).toLocaleString() in the en-US locale: M/D/YYYY, h:00:00 AM
toLocaleString(instant, tz) ==
    LET c == CivilFromDays(FloorDiv(instant + tz, 24))
        hour == (instant + tz) - FloorDiv(instant + tz, 24) * 24
        h12 == IF hour % 12 = 0 THEN 12 ELSE hour % 12
    IN DecimalText(c.m) \o <<"/">> \o DecimalText(c.d) \o <<"/">> \o DecimalText(c.y)
       \o <<",", " ">> \o DecimalText(h12) \o <<":", "0", "0", ":", "0", "0", " ">>
       \o (IF hour < 12 THEN <<"A", "M">> ELSE <<"P", "M">>)

\* the header row
csvHeaders ==
    << <<"ID">>, <<"Customer Name">>, <<"Customer Email">>, <<"Customer Phone">>,
       <<"Pickup Date">>, <<"Pickup Time">>, <<"Pickup Address">>, <<"Status">>,
       <<"Total Cost">>, <<"Special Instructions">>, <<"Internal Notes">>,
       <<"Created At">> >>

\* the cells of one order; a missing total is 0, missing texts are ''
csvRow(request, tz) ==
    << request.id, request.customer_name, request.customer_email,
       request.customer_phone, request.pickup_date, request.pickup_time_slot,
       request.pickup_address, request.status,
       DecimalText(IF request.total_estimated_cost = Null THEN 0
                   ELSE request.total_estimated_cost[1]),
       request.special_instructions, request.internal_notes,
       toLocaleString(request.created_at, tz) >>

\* String(field).replace(/"/g, '""'): every double quote written twice
RECURSIVE doubleQuotes(_)
doubleQuotes(txt) ==
    IF txt = <<>> THEN <<>>
    ELSE (IF Head(txt) = "\"" THEN <<"\"", "\"">> ELSE <<Head(txt)>>)
         \o doubleQuotes(Tail(txt))

\* `"${String(field).replace(/"/g, '""')}"`
csvFieldUnescaped(field) == <<"\"">> \o field \o <<"\"">>
csvField(field) == <<"\"">> \o doubleQuotes(field) \o <<"\"">>

\* Array.prototype.join(sep) of texts
RECURSIVE join(_, _)
join(texts, sep) ==
    IF texts = <<>> THEN <<>>
    ELSE IF Len(texts) = 1 THEN texts[1]
    ELSE texts[1] \o sep \o join(Tail(texts), sep)

\* csvContent of exportToCSV(requests)
csvText(list, tz) ==
    LET table == <<csvHeaders>> \o [i \in 1..Len(list) |-> csvRow(list[i], tz)]
    IN join([r \in 1..Len(table) |->
                join([k \in 1..Len(table[r]) |-> csvField(table[r][k])], <<",">>)],
            <<"\n">>)

\* the characters of the texts an order may hold
CsvChars == {"a", "\"", ",", "\n"}

\* texts of at most two characters
CsvTexts == {<<>>} \cup {<<c>> : c \in CsvChars} \cup {<<c, d>> : c \in CsvChars, d \in CsvChars}

\* an order as loadRequests() lists it
CsvOrders ==
    {[id |-> <<"7">>, customer_name |-> name, customer_email |-> <<"a@b.c">>,
      customer_phone |-> <<"5551234567">>, pickup_date |-> <<"2026-03-11">>,
      pickup_time_slot |-> TimeSlotLabel(<<"morning">>),
      pickup_address |-> <<"1 Main St.">>,
      status |-> <<"pending">>,
      total_estimated_cost |-> IF notes = <<>> THEN Null ELSE Some(25),
      special_instructions |-> notes, internal_notes |-> <<>>,
      created_at |-> MainClock.h] :
        name \in CsvTexts, notes \in {<<>>, <<"\"", ",">>}}

\* lists of at most n orders
RECURSIVE ListsUpTo(_, _)
ListsUpTo(S, n) ==
    IF n = 0 THEN {<<>>}
    ELSE ListsUpTo(S, n - 1) \cup
         {Append(l, x) : l \in {m \in ListsUpTo(S, n - 1) : Len(m) = n - 1}, x \in S}

\* the filtered list of RequestManagement, about to be exported
InitCSV ==
    /\ InitLib
    /\ now = MainClock
    /\ quantities = <<>>
    /\ payload = Null
    /\ validation = Null
    /\ \E list \in ListsUpTo(CsvOrders, MaxRows) :
          csvContent = Some([requests |-> list, text |-> Null])

\* the Export button: exportToCSV(filteredRequests)
ExportCSV ==
    /\ csvContent # Null
    /\ csvContent[1].text = Null
    /\ csvContent' = Some([requests |-> csvContent[1].requests,
                           text |-> Some(csvText(csvContent[1].requests, now.tz))])
    /\ UNCHANGED <<libFrame, validation>>

SpecCSV == InitCSV /\ [][ExportCSV]_vars

\* A CSV reader after RFC 4180: fields are separated by commas and records by
\* line breaks; a field in double quotes may hold commas, line breaks and
\* doubled double quotes.  A character lies inside a quoted field exactly
\* when an odd number of double quotes precedes it.
InsideQuotes(txt, i) == Cardinality({j \in 1..(i - 1) : txt[j] = "\""}) % 2 = 1

\* the pieces of txt between the unquoted occurrences of a separator
SplitOutsideQuotes(txt, sep) ==
    LET cuts == {i \in 1..Len(txt) : txt[i] = sep /\ ~InsideQuotes(txt, i)}
        cut(k) == CHOOSE p \in cuts : Cardinality({q \in cuts : q < p}) = k - 1
        first(k) == IF k = 1 THEN 1 ELSE cut(k - 1) + 1
        last(k) == IF k = Cardinality(cuts) + 1 THEN Len(txt) ELSE cut(k) - 1
    IN [k \in 1..(Cardinality(cuts) + 1) |-> SubSeq(txt, first(k), last(k))]

\* a doubled double quote read as one
RECURSIVE halveQuotes(_)
halveQuotes(txt) ==
    IF txt = <<>> THEN <<>>
    ELSE IF Len(txt) >= 2 /\ txt[1] = "\"" /\ txt[2] = "\""
         THEN <<"\"">> \o halveQuotes(SubSeq(txt, 3, Len(txt)))
    ELSE <<Head(txt)>> \o halveQuotes(Tail(txt))

\* the value of a field: a quoted field without its quotes
fieldValue(txt) ==
    IF Len(txt) >= 2 /\ txt[1] = "\"" /\ txt[Len(txt)] = "\""
    THEN halveQuotes(SubSeq(txt, 2, Len(txt) - 1))
    ELSE txt

parseCSV(txt) ==
    LET records == SplitOutsideQuotes(txt, "\n")
    IN [r \in 1..Len(records) |->
          LET fields == SplitOutsideQuotes(records[r], ",")
          IN [k \in 1..Len(fields) |-> fieldValue(fields[k])]]

\* C20: for any list of orders, reading the exported text with a standard CSV
\* reader gives the header row followed by one row per order, each of 12
\* fields in the fixed column order, and every cell is recovered exactly,
\* also when it holds double quotes, commas or line breaks.
C20_CSVRoundTrip ==
    (csvContent # Null /\ csvContent[1].text # Null) =>
        LET list == csvContent[1].requests
            read == parseCSV(csvContent[1].text[1])
        IN /\ Len(read) = Len(list) + 1
           /\ read[1] = csvHeaders
           /\ \A r \in 1..Len(read) : Len(read[r]) = 12
           /\ \A i \in 1..Len(list) : read[i + 1] = csvRow(list[i], now.tz)

\* a list was exported in which an order's notes hold a double quote and a
\* comma and a name holds a line break
C20_Witness ==
    /\ csvContent # Null
    /\ csvContent[1].text # Null
    /\ \E i \in 1..Len(csvContent[1].requests) :
          /\ csvContent[1].requests[i].special_instructions = <<"\"", ",">>
          /\ \E k \in 1..Len(csvContent[1].requests[i].customer_name) :
                csvContent[1].requests[i].customer_name[k] = "\n"

(***************************************************************************)
(* Every staff operation on an order, in one back office session           *)
(***************************************************************************)
\* the results an updateRequest call can have
ApiResults == {ApiOk} \cup {ApiError(e) : e \in StoreErrors}

\* the handlers of the three pages; the batch is run on orders 1 and 2 and
\* sets 'completed', the single-order handlers set 'confirmed'
NextStaff ==
    \/ \E id \in {1, 2} : handleSelectRequest(id)
    \/ BatchStart("completed")
    \/ \E id \in {1, 2}, res \in ApiResults : BatchWriteResolves(id, res)
    \/ \E loadOk \in BOOLEAN : BatchFinish(loadOk)
    \/ \E id \in {2, 3}, res \in ApiResults : updateSingleRequest(id, "confirmed", res)
    \/ \E sent \in BOOLEAN, e \in MailErrors : NotificationResolves(sent, e)
    \/ \E r \in laundry_requests : OpenDetails(r.id)
    \/ \E res \in ApiResults : saveStatus("confirmed", res)
    \/ \E id \in SeedIds, res \in ApiResults, loadOk \in BOOLEAN :
          markConfirmed(id, res, loadOk)

SpecStaff == InitUpdates /\ [][NextStaff]_vars

\* an order without the two fields staff may write
CustomerPart(r) == [f \in DOMAIN r \ {"status", "internal_notes"} |-> r[f]]

LoadAdminServices(ok) ==
    /\ adminServices' = IF ok THEN laundry_services ELSE {}
    /\ adminServices' # adminServices
    /\ UNCHANGED <<storeVars, formVars, toast, detail, requestVars>>

\* the customer's handlers with one quantity per service, and the
\* administrator's load and toggle
NextShop ==
    \/ \E ok \in BOOLEAN : LoadServices(ok)
    \/ \E ok \in BOOLEAN : SelectorLoad(ok)
    \/ EditForm(GoodDraft)
    \/ \E id \in ServiceIds : SetQuantity(id, JNum(1))
    \/ SubmitNoServices
    \/ SubmitStart
    \/ \E e \in StoreErrors : CreateFails(e)
    \/ CreateSucceeds
    \/ \E wid \in inflight, e \in StoreErrors : LineFails(wid, e)
    \/ \E wid \in inflight : LineSucceeds(wid)
    \/ \E ok \in BOOLEAN : LoadAdminServices(ok)
    \/ \E id \in ServiceIds, ok \in BOOLEAN : toggleActive(id, ok)

SpecShop == Init /\ [][NextShop]_vars

\* the service with an id is in the table and active
ActiveInStore(table, id) == \E s \in table : s.id = id /\ s.is_active

\* C22: the customer form never offers, and the submission never creates an
\* order line for, a service whose is_active flag is false in the store at
\* that moment.
C22_OnlyActiveOffered ==
    [][/\ \A i \in 1..Len(Items(selServices')) :
             ActiveInStore(laundry_services', Items(selServices')[i].id)
       /\ \A l \in request_services' \ request_services :
             ActiveInStore(laundry_services, l.service_id)]_vars

\* what the two loads do ensure: the list a load sets is the list of the
\* services active at the time of the load, ordered by name, or is empty
C22_ActiveWhenLoaded ==
    [][/\ selServices' # selServices =>
             Items(selServices') \in {listActiveServices, <<>>}
       /\ services' # services =>
             Items(services') \in {listActiveServices, <<>>}]_vars

(***************************************************************************)
(* The submission workflow when every store call eventually resolves       *)
(***************************************************************************)
\* the store answers the create call, and answers every line write
CreateResolves == (\E e \in StoreErrors : CreateFails(e)) \/ CreateSucceeds
LineResolves == \E wid \in inflight : (\E e \in StoreErrors : LineFails(wid, e)) \/ LineSucceeds(wid)

FairSpec == Init /\ [][Next]_vars /\ WF_vars(CreateResolves) /\ WF_vars(LineResolves)

\* C23: provided every store call eventually resolves, every submission
\* attempt reaches a terminal outcome, and submitLoading is false again on
\* every exit path: whenever onSubmit is running it eventually has returned
\* with submitLoading false, and every step that ends onSubmit (the
\* no-services return, a failed create, a failed line write, success) leaves
\* submitLoading false with an outcome set.
C23_SubmissionTerminates ==
    /\ (pc # "idle" \/ submitLoading) ~> (pc = "idle" /\ ~submitLoading)
    /\ [][(pc' = "idle" /\ (pc # "idle" \/ submitError' # submitError
                                        \/ submitSuccess' # submitSuccess)) =>
             /\ ~submitLoading'
             /\ (submitError' # Null) # (submitSuccess' # Null)]_vars

\* a submission ended on a failed line write after another line was stored
C23_Witness ==
    /\ pc = "idle" /\ ~submitLoading
    /\ submitError = Some("Failed to fetch")
    /\ laundry_requests # {}
    /\ request_services # {}

\* C24: the submission reports its outcome and re-enables the form
\* (submitLoading false) only after every order line write it issued has
\* resolved: no line write is in flight when the form is enabled.
C24_NoWriteInFlightWhenEnabled ==
    ~submitLoading => inflight = {}

\* what Promise.all does ensure: a write is left in flight only by a
\* submission that was reported as failed, never by one reported as a success
C24_InFlightOnlyAfterFailure ==
    [][/\ (submitLoading /\ ~submitLoading' /\ inflight' # {}) =>
             (submitError' # Null /\ submitSuccess' = Null)
       /\ (submitLoading /\ submitSuccess' # Null) => inflight' = {}]_vars

\* the list shows every request with the status it holds in the store
ListAgrees(list, table) ==
    \A r \in list : \E row \in table : row.id = r.id /\ row.status = r.status

\* C25: after a batch status update completes, with any mix of successful
\* and failed writes, the status shown in the request list for every request
\* equals the status the request holds in the store.
C25_ListAgreesAfterBatch ==
    [][(batch # Null /\ batch' = Null) => ListAgrees(requests', laundry_requests')]_vars

\* what the handler does ensure: the list agrees with the store after a batch
\* in which every write succeeded and the reload succeeded
C25_ListAgreesAfterCleanBatch ==
    [][(/\ batch # Null /\ batch' = Null
        /\ \A id \in batch[1].ids : batch[1].results[id].ok
        /\ toast' # Shown("Failed to fetch", "error")) =>
          ListAgrees(requests', laundry_requests')]_vars

(***************************************************************************)
(* RequestManagement: the list filter, the row selection and select-all    *)
(***************************************************************************)
\* the state of the customer page, the toast apart
customerFrame == <<services, selServices, formData, quantities, errors, submitLoading,
                   submitError, submitSuccess, pc, created, selected, lineWrites,
                   inflight, onSubmitData, payload, now, priceView, libVars>>

\* the store holds the seeded orders, of which order 2 was confirmed earlier
SeedRequestsMixed ==
    updateRequest(SeedRequests, 2, [status |-> "confirmed", internal_notes |-> Null])

\* RequestManagement after its first loadRequests(), no filter set
InitSelect ==
    /\ laundry_services = InitialCatalog
    /\ laundry_requests = SeedRequestsMixed
    /\ request_services = SeedRequestLines
    /\ nextId = 4
    /\ services = Null
    /\ selServices = Null
    /\ now = MainClock
    /\ formData = DefaultValues
    /\ quantities = <<>>
    /\ errors = {}
    /\ submitLoading = FALSE
    /\ submitError = Null
    /\ submitSuccess = Null
    /\ toast = Null
    /\ pc = "idle"
    /\ created = Null
    /\ selected = <<>>
    /\ lineWrites = {}
    /\ inflight = {}
    /\ onSubmitData = Null
    /\ payload = Null
    /\ priceView = Null
    /\ adminServices = {}
    /\ detail = Null
    /\ LibIdle
    /\ SessionIdle
    /\ requests = SeedRequestsMixed
    /\ selectedRequests = {}
    /\ batch = Null
    /\ updateWrites = {}
    /\ notifications = <<>>
    /\ adminPc = Null
    /\ pendingRequests = {}

\* filteredRequests with the date filter and the search term empty
filteredRequests(list, filter) == {r \in list : filter = "all" \/ r.status = filter}

\* the ids of the rows the table shows
VisibleIds == {r.id : r \in filteredRequests(requests, statusFilter)}

\* setStatusFilter(e.target.value)
setStatusFilter(filter) ==
    /\ filter # statusFilter
    /\ statusFilter' = filter
    /\ UNCHANGED <<storeVars, customerFrame, toast, adminServices, detail, requestVars,
                   serviceOps, adminAuth>>

\* the selection handleSelectAll sets: none when the two sizes are equal,
\* else the visible rows
selectAll(ticked, visible) ==
    IF Cardinality(ticked) = Cardinality(visible) THEN {} ELSE visible

\* handleSelectAll()
handleSelectAll ==
    /\ selectedRequests' = selectAll(selectedRequests, VisibleIds)
    /\ selectedRequests' # selectedRequests
    /\ UNCHANGED <<storeVars, formVars, toast, adminServices, detail, requests, batch,
                   updateWrites, notifications, adminPc, pendingRequests>>

\* the filter select, the checkbox of a visible row, the header checkbox and
\* the batch update
NextSelect ==
    \/ \E filter \in {"all", "pending", "confirmed"} : setStatusFilter(filter)
    \/ \E id \in VisibleIds : handleSelectRequest(id)
    \/ handleSelectAll
    \/ BatchStart("completed")
    \/ \E id \in SeedIds, res \in ApiResults : BatchWriteResolves(id, res)
    \/ \E loadOk \in BOOLEAN : BatchFinish(loadOk)

SpecSelect == InitSelect /\ [][NextSelect]_vars

\* C26: after any filter changes and row selections, select-all invoked
\* while some visible request is not selected makes the selection exactly
\* the visible requests, and it clears the selection only when every visible
\* request is already selected; so a batch update never writes to a request
\* that is not in the visible list.
C26_SelectAllExact ==
    [][/\ (VisibleIds \ selectedRequests # {}) =>
             selectAll(selectedRequests, VisibleIds) = VisibleIds
       /\ (selectAll(selectedRequests, VisibleIds) = {} /\ selectedRequests # {}) =>
             VisibleIds \subseteq selectedRequests
       /\ (batch = Null /\ batch' # Null) => batch'[1].ids \subseteq VisibleIds]_vars

\* what the size test does ensure: select-all is exact whenever every ticked
\* request is visible
C26_ExactWhenSelectionVisible ==
    selectedRequests \subseteq VisibleIds =>
        /\ (VisibleIds \ selectedRequests # {}) =>
              selectAll(selectedRequests, VisibleIds) = VisibleIds
        /\ (selectAll(selectedRequests, VisibleIds) = {} /\ selectedRequests # {}) =>
              VisibleIds \subseteq selectedRequests

\* C27: whenever a submission succeeds, every service to which the customer
\* gave a quantity above 0 in the selector has an order line in the submitted
\* order, although the selector and the form load the catalog by reads of
\* their own.
C27_EveryChosenServiceSubmitted ==
    [][(submitLoading /\ submitSuccess' # Null) =>
          \A id \in DOMAIN onSubmitData[1].quantities :
             JGt0(onSubmitData[1].quantities[id]) =>
                \E l \in request_services' :
                   /\ l.request_id = created[1].data[1].id
                   /\ l.service_id = id
                   /\ l.quantity = onSubmitData[1].quantities[id]]_vars

\* what the selected filter does ensure: a successful submission holds a line
\* for every chosen service that is in the list the form itself loaded
C27_ChosenAndListedSubmitted ==
    [][(submitLoading /\ submitSuccess' # Null) =>
          \A i \in 1..Len(Items(services)) :
             JGt0(QtyOf(onSubmitData[1].quantities, Items(services)[i].id)) =>
                \E l \in request_services' :
                   /\ l.request_id = created[1].data[1].id
                   /\ l.service_id = Items(services)[i].id]_vars

(***************************************************************************)
(* ServiceManagementPage with its store writes in flight                   *)
(***************************************************************************)
MaxInFlight == 2   \* catalog writes in flight at one time

\* the catalog page is about to load; the store holds the seeded orders
InitServiceOps ==
    /\ InitStore
    /\ RequestsClosed

\* a handler waiting for its store write: what it captured when it was called
ServiceOp(kind, id, was, prev, prices) ==
    [kind |-> kind, id |-> id, was |-> was, prev |-> prev, prices |-> prices]

\* every part of the state but the store's catalog, the page's list, the
\* writes in flight and the toast
serviceFrame == <<laundry_requests, request_services, nextId, customerFrame, detail,
                  requestVars, statusFilter, adminAuth>>

\* the list with one row changed
withRow(list, id, change(_)) == {IF s.id = id THEN change(s) ELSE s : s \in list}

\* submitService with form.id set, up to the await: the optimistic list
submitServiceStart(id, prices) ==
    /\ Cardinality(serviceOps) < MaxInFlight
    /\ \E s \in adminServices : s.id = id
    /\ adminServices' =
          withRow(adminServices, id,
                  LAMBDA s : [s EXCEPT !.price_per_item = prices[1],
                                       !.price_per_pound = prices[2]])
    /\ serviceOps' = serviceOps \cup {ServiceOp("edit", id, TRUE, {}, prices)}
    /\ serviceOps' # serviceOps
    /\ UNCHANGED <<laundry_services, toast, serviceFrame>>

\* toggleActive(s) up to the await: the optimistic flip
toggleActiveStart(id) ==
    /\ Cardinality(serviceOps) < MaxInFlight
    /\ \E s \in adminServices : s.id = id
    /\ LET row == CHOOSE s \in adminServices : s.id = id
       IN /\ adminServices' =
                withRow(adminServices, id, LAMBDA s : [s EXCEPT !.is_active = ~row.is_active])
          /\ serviceOps' = serviceOps
                              \cup {ServiceOp("toggle", id, row.is_active, {}, <<Null, Null>>)}
    /\ serviceOps' # serviceOps
    /\ UNCHANGED <<laundry_services, toast, serviceFrame>>

\* removeServiceConfirmed() up to the await: prev is kept, the row removed
removeServiceStart(id) ==
    /\ Cardinality(serviceOps) < MaxInFlight
    /\ \E s \in adminServices : s.id = id
    /\ adminServices' = {s \in adminServices : s.id # id}
    /\ serviceOps' = serviceOps
                        \cup {ServiceOp("remove", id, TRUE, adminServices, <<Null, Null>>)}
    /\ serviceOps' # serviceOps
    /\ UNCHANGED <<laundry_services, toast, serviceFrame>>

\* the store write of a handler resolves and the handler runs to its end:
\* submitService shows a toast either way, toggleActive sets the flag back
\* to the value it captured on error, removeServiceConfirmed sets the list
\* back to prev on error
ServiceWriteResolves(op, ok) ==
    /\ op \in serviceOps
    /\ serviceOps' = serviceOps \ {op}
    /\ LET done == ok /\ (op.kind = "remove" => ~deleteRestricted(request_services, op.id))
       IN /\ laundry_services' =
                IF ~done THEN laundry_services
                ELSE CASE op.kind = "edit" ->
                            withRow(laundry_services, op.id,
                                    LAMBDA s : [s EXCEPT !.price_per_item = op.prices[1],
                                                         !.price_per_pound = op.prices[2]])
                       [] op.kind = "toggle" ->
                            withRow(laundry_services, op.id,
                                    LAMBDA s : [s EXCEPT !.is_active = ~op.was])
                       [] op.kind = "remove" ->
                            {s \in laundry_services : s.id # op.id}
          /\ adminServices' =
                IF done \/ op.kind = "edit" THEN adminServices
                ELSE IF op.kind = "toggle"
                     THEN withRow(adminServices, op.id,
                                  LAMBDA s : [s EXCEPT !.is_active = op.was])
                ELSE op.prev
          /\ toast' = IF ~done
                      THEN Shown(IF ok THEN "violates foreign key constraint"
                                 ELSE "Failed to fetch", "error")
                      ELSE CASE op.kind = "edit" -> Shown("Service updated", "success")
                             [] op.kind = "toggle" ->
                                  Shown(IF ~op.was THEN "Service activated"
                                        ELSE "Service archived", "success")
                             [] op.kind = "remove" -> Shown("Service deleted", "success")
    /\ UNCHANGED serviceFrame

\* the page's first load, an edit of svc1, the toggles, a delete of svc2 (svc1 is
\* referred to by order lines), and the store's answers
NextServiceOps ==
    \/ (adminServices = {} /\ LoadAdminServices(TRUE))
    \/ submitServiceStart("svc1", <<Some(100), Null>>)
    \/ \E id \in ServiceIds : toggleActiveStart(id)
    \/ removeServiceStart("svc2")
    \/ \E op \in serviceOps, ok \in BOOLEAN : ServiceWriteResolves(op, ok)

SpecServiceOps == InitServiceOps /\ [][NextServiceOps]_vars

\* C28: for any interleaving of service edits, toggles and deletes that each
\* succeed or fail, whenever no service write is in flight the page's list
\* agrees with the store: a failed write leaves no optimistic change behind
\* and the rollback of one operation does not undo the effect of another.
C28_ListAgreesWithStore ==
    (serviceOps = {} /\ adminServices # {}) => adminServices = laundry_services

(***************************************************************************)
(* AdminLayout: the password gate of the back office                       *)
(***************************************************************************)
\* the passwords a build can be configured with and the ones typed in
Passwords == {<<>>, <<"guess">>, <<"secret">>}
\* what the env file can define: nothing, an empty or a real Vite variable,
\* and a CRA-style variable
Envs == [vite : {Null, Some(<<>>), Some(<<"secret">>)}, cra : {Null, Some(<<"guess">>)}]

\* getAdminPassword(): the first of the two env names that is set and not empty
getAdminPassword(env) ==
    IF env.vite # Null /\ env.vite[1] # <<>> THEN env.vite ELSE env.cra

\* localStorage.getItem('admin-authenticated') === 'true'
storedAuthed(auth) == auth.flag = Some("true")

\* useAdminAuth().login(password): what it returns; on ok it also persists
\* the flag and sets the isAuthed of the hook instance it belongs to
login(env, password) ==
    LET configured == getAdminPassword(env)
    IN IF configured = Null \/ configured[1] = <<>>
       THEN [ok |-> FALSE, error |-> "Admin password not configured."]
       ELSE IF password # configured[1]
       THEN [ok |-> FALSE, error |-> "Invalid password."]
       ELSE [ok |-> TRUE, error |-> ""]

\* every part of the state but the login state
authFrame == <<storeVars, customerFrame, toast, adminServices, detail, requestVars,
               statusFilter, serviceOps>>

\* the admin route is closed in every tab, under some env file
InitAuth ==
    /\ laundry_services = InitialCatalog
    /\ laundry_requests = {}
    /\ request_services = {}
    /\ nextId = 1
    /\ services = Null
    /\ selServices = Null
    /\ now = MainClock
    /\ formData = DefaultValues
    /\ quantities = <<>>
    /\ errors = {}
    /\ submitLoading = FALSE
    /\ submitError = Null
    /\ submitSuccess = Null
    /\ toast = Null
    /\ pc = "idle"
    /\ created = Null
    /\ selected = <<>>
    /\ lineWrites = {}
    /\ inflight = {}
    /\ onSubmitData = Null
    /\ payload = Null
    /\ priceView = Null
    /\ adminServices = {}
    /\ detail = Null
    /\ LibIdle
    /\ RequestsClosed
    /\ statusFilter = "all"
    /\ serviceOps = {}
    /\ \E env \in Envs : adminAuth = LoggedOut(env)

\* /admin is opened in tab t: AdminLayout mounts and the effect of its
\* useAdminAuth() reads the flag; when it is not 'true' AdminLoginForm mounts
\* with a hook instance of its own, whose effect reads the same flag
MountLayout(t) ==
    /\ adminAuth.tabs[t].layout = Null
    /\ adminAuth' =
          [adminAuth EXCEPT !.tabs[t] =
              [layout |-> Some(storedAuthed(adminAuth)),
               form |-> IF storedAuthed(adminAuth) THEN Null
                        ELSE Some(storedAuthed(adminAuth)),
               password |-> <<>>,
               error |-> Null]]
    /\ UNCHANGED authFrame

\* the tab leaves the admin route or is closed: the component state is lost
CloseTab(t) ==
    /\ adminAuth.tabs[t].layout # Null
    /\ adminAuth' = [adminAuth EXCEPT !.tabs[t] = TabClosed]
    /\ UNCHANGED authFrame

\* the password input's onChange
setPassword(t, password) ==
    /\ adminAuth.tabs[t].form # Null
    /\ adminAuth.tabs[t].password # password
    /\ adminAuth' = [adminAuth EXCEPT !.tabs[t].password = password]
    /\ UNCHANGED authFrame

\* AdminLoginForm.onSubmit: login() of the form's own hook instance; on ok
\* the flag is persisted and the form's isAuthed is set, the layout's
\* isAuthed belongs to another instance and is not touched
onSubmitLogin(t) ==
    /\ adminAuth.tabs[t].form # Null
    /\ LET res == login(adminAuth.env, adminAuth.tabs[t].password)
       IN adminAuth' =
             [adminAuth EXCEPT
                 !.flag = IF res.ok THEN Some("true") ELSE @,
                 !.tabs[t].form = IF res.ok THEN Some(TRUE) ELSE @,
                 !.tabs[t].error = IF res.ok THEN Null ELSE Some(res.error)]
    /\ UNCHANGED authFrame

\* AdminLayout.handleLogout, offered by the panel: logout() of the layout's
\* hook instance removes the flag and clears isAuthed, so the login form
\* mounts afresh; navigate('/admin') stays inside the layout
handleLogout(t) ==
    /\ adminAuth.tabs[t].layout = Some(TRUE)
    /\ adminAuth' =
          [adminAuth EXCEPT
              !.flag = Null,
              !.tabs[t] = [layout |-> Some(FALSE), form |-> Some(FALSE),
                           password |-> <<>>, error |-> Null]]
    /\ UNCHANGED authFrame

NextAuth ==
    \/ \E t \in Tabs : MountLayout(t)
    \/ \E t \in Tabs : CloseTab(t)
    \/ \E t \in Tabs, password \in Passwords : setPassword(t, password)
    \/ \E t \in Tabs : onSubmitLogin(t)
    \/ \E t \in Tabs : handleLogout(t)

SpecAuth == InitAuth /\ [][NextAuth]_vars

\* the layout of tab t shows the admin panel, not the login form
showsPanel(t) == adminAuth.tabs[t].layout = Some(TRUE)

\* C30: after any sequence of login attempts and logouts a mounted admin
\* layout shows the admin panel exactly when the persisted
\* 'admin-authenticated' flag is 'true'; so a login with the configured
\* password makes the layout show the panel.
C30_PanelIffFlag ==
    \A t \in Tabs :
       adminAuth.tabs[t].layout # Null => (showsPanel(t) <=> storedAuthed(adminAuth))

\* what the hook does ensure: the flag is set only by a login with the
\* configured password, a refused login leaves the flag alone and shows its
\* error, logout removes the flag, and a layout that mounts shows the panel
\* exactly when the flag is 'true' at that moment
C30_FlagFollowsLoginAndLogout ==
    [][\A t \in Tabs :
          LET tab == adminAuth.tabs[t]
              tab2 == adminAuth'.tabs[t]
              configured == getAdminPassword(adminAuth.env)
          IN /\ (tab.form # Some(TRUE) /\ tab2.form = Some(TRUE)) =>
                   /\ configured = Some(tab.password)
                   /\ tab.password # <<>>
                   /\ storedAuthed(adminAuth')
             /\ (tab.form # Null /\ tab2.error # Null /\ tab2.error # tab.error) =>
                   /\ adminAuth'.flag = adminAuth.flag
                   /\ configured # Some(tab.password) \/ tab.password = <<>>
             /\ (~storedAuthed(adminAuth) /\ storedAuthed(adminAuth')) =>
                   \E u \in Tabs : adminAuth'.tabs[u].form = Some(TRUE)
             /\ (showsPanel(t) /\ tab2.layout = Some(FALSE)) => adminAuth'.flag = Null
             /\ (tab.layout = Null /\ tab2.layout # Null) =>
                   (tab2.layout = Some(TRUE)) <=> storedAuthed(adminAuth)]_vars

====
